---- MODULE Spec2Model ----
(***************************************************************************)
(* MemoryTree: gesture classification (VisionManager) and the three-state  *)
(* layout machine (PhotoSystem) driven by the frame loop of main.ts.       *)
(*                                                                         *)
(* Numbers.  The program computes in floating point; the model computes in *)
(* fixed point.  Normalised coordinates, distances, pinchDistance,         *)
(* handsDistance and velocities are in hundredths (0.5 is 50), sphereScale *)
(* is in ten-thousandths (1.0 is 10000), times are in milliseconds.        *)
(* Products and quotients are truncated toward zero.                       *)
(***************************************************************************)
EXTENDS Integers, Sequences, FiniteSets, TLC

VARIABLES
    now,                \* performance.now() read by the latest tick (ms)
    leftHand,           \* VisionManager.leftHand  : HandData
    rightHand,          \* VisionManager.rightHand : HandData
    handsDistance,      \* VisionManager.handsDistance
    handsDetectedBoth,  \* VisionManager.handsDetectedBoth
    photoSystem,        \* PhotoSystem: state, selectedIndex, hoveredIndex,
                        \*   sphereScale, explodeCount (calls of explode()),
                        \*   sphereRotation, hoverIntensities, aspectRatios,
                        \*   targetTransforms
    currentTransforms,  \* PhotoSystem.currentTransforms, in ten-thousandths;
                        \*   followed by SpecLerp only
    startup,            \* init() of main.ts: the stage of visionManager.initialize(),
                        \*   handLandmarker and isWebcamRunning of the VisionManager,
                        \*   the 8 s timer, the outcome of Promise.race and whether
                        \*   threeScene.start has been called
    layoutBefore,       \* photoSystem.state when the latest step began
    lastCall,           \* SpecPhoto: the PhotoSystem method called by the latest
                        \*   step, its argument and the number of calls so far
    frameProcessed,     \* the latest tick ran the body of VisionManager.update
    calls,              \* the updateHandData invocations of the latest tick
    swipeTimes,         \* per hand slot, the times at which a SWIPE_* was classified
    pinchSeen           \* per hand slot, the latest pinch gesture that a processed
                        \*   frame left in hand.gesture, "NONE" before the first

vars == <<now, leftHand, rightHand, handsDistance, handsDetectedBoth,
          photoSystem, currentTransforms, startup, layoutBefore, lastCall,
          frameProcessed, calls, swipeTimes, pinchSeen>>

-----------------------------------------------------------------------------
(* Bounds of the model *)

\* SpecLerp calls update() in CRYSTAL_BALL and SPHERE while the yaw of the
\* sphere is below LerpMaxAngle (1e-4 rad)
LerpMaxAngle == 40
\* the clock stops the specification SpecIdle at IdleMaxTime
IdleMaxTime == 3000
\* the clock stops the specification SpecStart at StartMaxTime
StartMaxTime == 12000
\* performance.now() when the frame loop starts: loading the vision model and
\* starting the camera take longer than the 400 ms gesture windows
StartTime == 400
\* the clock stops the specification Spec at MaxTime
MaxTime == 800
\* the clock stops the specification SpecHand at HandMaxTime
HandMaxTime == 1100
\* the clock stops the specification SpecZoom at ZoomMaxTime
ZoomMaxTime == 800
\* the clock stops the specification SpecBall at BallMaxTime
BallMaxTime == 700
\* the clock stops the specification SpecDetail at DetailMaxTime
DetailMaxTime == 800
\* the clock stops the specification SpecHold at HoldMaxTime
HoldMaxTime == 1100
\* the clock stops the specification SpecTwin at TwinMaxTime
TwinMaxTime == 700
\* the clock stops the specification SpecSwipe at SwipeMaxTime
SwipeMaxTime == 1000
\* the clock stops the specification SpecPinch at PinchMaxTime
PinchMaxTime == 700
\* SpecPinch puts the thumb tip up to MaxPinchGap (hundredths) beside the
\* index tip
MaxPinchGap == 30
\* number of photo items (PhotoSystem.count)
Count == 3
\* the specification SpecPhoto makes at most MaxCalls method calls
MaxCalls == 5

-----------------------------------------------------------------------------
(* Program constants, in the model's fixed-point units *)

Center == 50
Deadzone == 10
CursorSmoothing == 5
MinP == 3
MaxP == 25
PinchThreshold == 10
DoublePinchWindow == 400
FingerClosedDist == 15
ClosedFingersForFist == 3
SwipeDebounce == 400
SwipeThreshold == 150
HandsSmoothing == 30
MinDistance == 15
MaxDistance == 80
CrystalBallScale == 2000
SphereScaleNormal == 10000
ExpansionBase == 5000
ExpansionGain == 205
\* PhotoSystem geometry: lengths and scales in hundredths, aspect ratios in
\* hundredths, hover intensities in ten-thousandths, angles in 1e-4 rad
BaseRadius == 15
BasePhotoScale == 310
BaseHeight == 150
DefaultAspect == 80
DetailZ == 3200
DetailScale == 36
DetailRadiusFactor == 2
HoverEase == 15
HoverEpsilon == 10
HoverPush == 100000
HoverGrow == 50000
CrystalSpin == 500
SphereSpin == 20
AutoYaw == 20
RotationGain == 5
LeftHoldPinch == 20
LerpFactor == 5
VisionTimeout == 8000

Swipes == {"SWIPE_LEFT", "SWIPE_RIGHT", "SWIPE_UP", "SWIPE_DOWN"}
PinchStarts == {"PINCH_START", "DOUBLE_PINCH"}
PinchEdges == {"PINCH_START", "DOUBLE_PINCH", "PINCH_END"}
Gestures == {"NONE", "FIST"} \cup PinchEdges \cup Swipes

-----------------------------------------------------------------------------
(* Arithmetic *)

Abs(n) == IF n >= 0 THEN n ELSE -n

\* quotient truncated toward zero, b > 0
TruncDiv(a, b) == IF a >= 0 THEN a \div b ELSE -((-a) \div b)

Max2(a, b) == IF a >= b THEN a ELSE b
Min2(a, b) == IF a <= b THEN a ELSE b

\* floor of the square root, for 0 <= n < 40000
ISqrt(n) ==
    LET t == CHOOSE k \in 0..19 : (10*k)*(10*k) <= n /\ (10*(k+1))*(10*(k+1)) > n
    IN  CHOOSE r \in (10*t)..(10*t + 9) : r*r <= n /\ (r+1)*(r+1) > n

-----------------------------------------------------------------------------
(* VisionManager *)

\* mutant of createEmptyHandData: a hand starts with a pinch
createEmptyHandData_StartsPinching ==
    [ detected        |-> FALSE,
      position        |-> [x |-> 50, y |-> 50, z |-> 0],
      pinchDistance   |-> 0,
      isPinching      |-> TRUE,
      gesture         |-> "PINCH_START",
      velocity        |-> [x |-> 0, y |-> 0],
      lastPosition    |-> {},
      rotationSpeed   |-> [x |-> 0, y |-> 0],
      cursor          |-> [x |-> 50, y |-> 50],
      lastPinchTime   |-> 0,
      lastGestureTime |-> 0 ]

createEmptyHandData ==
    [ detected        |-> FALSE,
      position        |-> [x |-> 50, y |-> 50, z |-> 0],
      pinchDistance   |-> 0,
      isPinching      |-> FALSE,
      gesture         |-> "NONE",
      velocity        |-> [x |-> 0, y |-> 0],
      lastPosition    |-> {},          \* {} is null, {p} is p
      rotationSpeed   |-> [x |-> 0, y |-> 0],
      cursor          |-> [x |-> 50, y |-> 50],
      lastPinchTime   |-> 0,
      lastGestureTime |-> 0 ]

\* hand.position: mean of wrist (0), index MCP (5) and pinky MCP (17)
PalmPosition(lm) ==
    [ x |-> TruncDiv(lm[0].x + lm[5].x + lm[17].x, 3),
      y |-> TruncDiv(lm[0].y + lm[5].y + lm[17].y, 3),
      z |-> TruncDiv(lm[0].z + lm[5].z + lm[17].z, 3) ]

\* hand.cursor advanced toward (1 - indexTip.x, indexTip.y) by factor 0.2
SmoothCursor(cursor, indexTip) ==
    [ x |-> cursor.x + TruncDiv((100 - indexTip.x) - cursor.x, CursorSmoothing),
      y |-> cursor.y + TruncDiv(indexTip.y - cursor.y, CursorSmoothing) ]

\* hand.velocity: EMA (factor 0.5) of the position delta, only when
\* lastPosition is set
SmoothVelocity(hand, pos) ==
    IF hand.lastPosition # {}
    THEN LET lp == CHOOSE p \in hand.lastPosition : TRUE
         IN  [ x |-> TruncDiv(hand.velocity.x + (pos.x - lp.x), 2),
               y |-> TruncDiv(hand.velocity.y + (pos.y - lp.y), 2) ]
    ELSE hand.velocity

\* one axis of hand.rotationSpeed, d the offset from the centre
RotationSpeedAxis(d) ==
    IF Abs(d) > Deadzone
    THEN (IF d > 0 THEN d - Deadzone ELSE d + Deadzone) * 2
    ELSE 0

\* rawDist: 3D distance of thumb tip (4) and index tip (8)
RawPinchDist(lm) ==
    ISqrt( (lm[4].x - lm[8].x) * (lm[4].x - lm[8].x)
         + (lm[4].y - lm[8].y) * (lm[4].y - lm[8].y)
         + (lm[4].z - lm[8].z) * (lm[4].z - lm[8].z) )

\* mutant of RemapPinch: the range starts at 0 instead of minP
RemapPinch_FromZero(rawDist) ==
    Min2(Max2(TruncDiv(rawDist * 100, MaxP), 0), 100)

\* mutant of RemapPinch: the remapped distance is not clamped
RemapPinch_Unclamped(rawDist) ==
    TruncDiv((rawDist - MinP) * 100, MaxP - MinP)

\* hand.pinchDistance: rawDist remapped from [minP, maxP] to [0, 1], clamped
RemapPinch(rawDist) ==
    Min2(Max2(TruncDiv((rawDist - MinP) * 100, MaxP - MinP), 0), 100)

\* closedFingers: tips 8, 12, 16, 20 closer than 0.15 to the wrist, in 2D
ClosedFingers(lm) ==
    Cardinality({ idx \in {8, 12, 16, 20} :
        ISqrt( (lm[idx].x - lm[0].x) * (lm[idx].x - lm[0].x)
             + (lm[idx].y - lm[0].y) * (lm[idx].y - lm[0].y) )
          < FingerClosedDist })

\* What updateHandData reads from the landmarks of one hand
Reading(lm) ==
    [ position      |-> PalmPosition(lm),
      indexTip      |-> [x |-> lm[8].x, y |-> lm[8].y],
      rawDist       |-> RawPinchDist(lm),
      closedFingers |-> ClosedFingers(lm) ]

\* mutant of ClassifyPinch: the window includes 400 ms
ClassifyPinch_WindowInclusive(hand, currentlyPinching, t) ==
    IF currentlyPinching /\ ~hand.isPinching
    THEN [hand EXCEPT !.isPinching = TRUE,
                      !.gesture = IF t - hand.lastPinchTime <= DoublePinchWindow
                                  THEN "DOUBLE_PINCH" ELSE "PINCH_START",
                      !.lastPinchTime = t]
    ELSE IF ~currentlyPinching /\ hand.isPinching
    THEN [hand EXCEPT !.isPinching = FALSE, !.gesture = "PINCH_END"]
    ELSE hand

\* mutant of ClassifyPinch: PINCH_START on every frame of a pinch
ClassifyPinch_LevelTriggered(hand, currentlyPinching, t) ==
    IF currentlyPinching
    THEN [hand EXCEPT !.isPinching = TRUE,
                      !.gesture = IF t - hand.lastPinchTime < DoublePinchWindow
                                  THEN "DOUBLE_PINCH" ELSE "PINCH_START",
                      !.lastPinchTime = t]
    ELSE IF hand.isPinching
    THEN [hand EXCEPT !.isPinching = FALSE, !.gesture = "PINCH_END"]
    ELSE hand

\* the pinch edge: rising, falling or none
ClassifyPinch(hand, currentlyPinching, t) ==
    IF currentlyPinching /\ ~hand.isPinching
    THEN [hand EXCEPT !.isPinching = TRUE,
                      !.gesture = IF t - hand.lastPinchTime < DoublePinchWindow
                                  THEN "DOUBLE_PINCH" ELSE "PINCH_START",
                      !.lastPinchTime = t]
    ELSE IF ~currentlyPinching /\ hand.isPinching
    THEN [hand EXCEPT !.isPinching = FALSE, !.gesture = "PINCH_END"]
    ELSE hand

\* mutant of ClassifyFist: a pinch edge is kept
ClassifyFist_UnlessPinchEdge(hand, closedFingers) ==
    IF closedFingers >= ClosedFingersForFist /\ hand.gesture = "NONE"
    THEN [hand EXCEPT !.gesture = "FIST"]
    ELSE hand

\* three or more closed fingers make a FIST
ClassifyFist(hand, closedFingers) ==
    IF closedFingers >= ClosedFingersForFist
    THEN [hand EXCEPT !.gesture = "FIST"]
    ELSE hand

\* mutant of ClassifySwipe: the debounce timestamp is not updated
ClassifySwipe_NoTimestamp(hand, closedFingers, t) ==
    IF /\ hand.gesture = "NONE"
       /\ ~hand.isPinching
       /\ closedFingers < ClosedFingersForFist
       /\ t - hand.lastGestureTime > SwipeDebounce
    THEN LET speedX == hand.velocity.x * 100
             speedY == hand.velocity.y * 100
         IN  IF Abs(speedX) > SwipeThreshold \/ Abs(speedY) > SwipeThreshold
             THEN [hand EXCEPT
                     !.gesture = IF Abs(speedX) > Abs(speedY)
                                 THEN (IF speedX > 0 THEN "SWIPE_RIGHT" ELSE "SWIPE_LEFT")
                                 ELSE (IF speedY > 0 THEN "SWIPE_DOWN" ELSE "SWIPE_UP")]
             ELSE hand
    ELSE hand

\* mutant of ClassifySwipe: a swipe 400 ms after the last one is accepted
ClassifySwipe_AtLeast(hand, closedFingers, t) ==
    IF /\ hand.gesture = "NONE"
       /\ ~hand.isPinching
       /\ closedFingers < ClosedFingersForFist
       /\ t - hand.lastGestureTime >= SwipeDebounce
    THEN LET speedX == hand.velocity.x * 100
             speedY == hand.velocity.y * 100
         IN  IF Abs(speedX) > SwipeThreshold \/ Abs(speedY) > SwipeThreshold
             THEN [hand EXCEPT
                     !.gesture = IF Abs(speedX) > Abs(speedY)
                                 THEN (IF speedX > 0 THEN "SWIPE_RIGHT" ELSE "SWIPE_LEFT")
                                 ELSE (IF speedY > 0 THEN "SWIPE_DOWN" ELSE "SWIPE_UP"),
                     !.lastGestureTime = t]
             ELSE hand
    ELSE hand

\* the debounced swipe; speeds are velocity * 100, SwipeThreshold is 1.5 * 100
ClassifySwipe(hand, closedFingers, t) ==
    IF /\ hand.gesture = "NONE"
       /\ ~hand.isPinching
       /\ closedFingers < ClosedFingersForFist
       /\ t - hand.lastGestureTime > SwipeDebounce
    THEN LET speedX == hand.velocity.x * 100
             speedY == hand.velocity.y * 100
         IN  IF Abs(speedX) > SwipeThreshold \/ Abs(speedY) > SwipeThreshold
             THEN [hand EXCEPT
                     !.gesture = IF Abs(speedX) > Abs(speedY)
                                 THEN (IF speedX > 0 THEN "SWIPE_RIGHT" ELSE "SWIPE_LEFT")
                                 ELSE (IF speedY > 0 THEN "SWIPE_DOWN" ELSE "SWIPE_UP"),
                     !.lastGestureTime = t]
             ELSE hand
    ELSE hand

\* updateHandData(hand, landmarks), rd being Reading(landmarks) and t the
\* value of performance.now()
updateHandData(hand, rd, t) ==
    LET pos == rd.position
        pd  == RemapPinch(rd.rawDist)
        h1  == [hand EXCEPT
                  !.position = pos,
                  !.cursor = SmoothCursor(hand.cursor, rd.indexTip),
                  !.velocity = SmoothVelocity(hand, pos),
                  !.lastPosition = {pos},
                  !.rotationSpeed = [x |-> RotationSpeedAxis(pos.x - Center),
                                     y |-> RotationSpeedAxis(pos.y - Center)],
                  !.pinchDistance = pd,
                  !.gesture = "NONE"]
        h2  == ClassifyPinch(h1, pd < PinchThreshold, t)
        h3  == ClassifyFist(h2, rd.closedFingers)
    IN  ClassifySwipe(h3, rd.closedFingers, t)

\* mutant of resetHand: a lost hand is no longer pinching
resetHand_ClearsPinching(hand) ==
    [hand EXCEPT !.velocity = [x |-> 0, y |-> 0],
                 !.rotationSpeed = [x |-> 0, y |-> 0],
                 !.pinchDistance = 0,
                 !.isPinching = FALSE]

resetHand(hand) ==
    [hand EXCEPT !.velocity = [x |-> 0, y |-> 0],
                 !.rotationSpeed = [x |-> 0, y |-> 0],
                 !.pinchDistance = 0]

\* mutant of calculateHandsDistance: the distance falls to 0 without two hands
calculateHandsDistance_ZeroOnLoss(left, right, hd) ==
    IF left.detected /\ right.detected
    THEN LET dx == left.position.x - right.position.x
             dy == left.position.y - right.position.y
             dz == left.position.z - right.position.z
             currentDistance == ISqrt(dx*dx + dy*dy + dz*dz)
             smoothed == TruncDiv(hd * (100 - HandsSmoothing)
                                  + currentDistance * HandsSmoothing, 100)
             normalizedDistance ==
                 TruncDiv((smoothed - MinDistance) * 100, MaxDistance - MinDistance)
         IN  <<Max2(0, Min2(100, normalizedDistance)), TRUE>>
    ELSE <<0, FALSE>>

\* mutant of calculateHandsDistance: the raw distance is not smoothed
calculateHandsDistance_Unsmoothed(left, right, hd) ==
    IF left.detected /\ right.detected
    THEN LET dx == left.position.x - right.position.x
             dy == left.position.y - right.position.y
             dz == left.position.z - right.position.z
             currentDistance == ISqrt(dx*dx + dy*dy + dz*dz)
             normalizedDistance ==
                 TruncDiv((currentDistance - MinDistance) * 100, MaxDistance - MinDistance)
         IN  <<Max2(0, Min2(100, normalizedDistance)), TRUE>>
    ELSE <<hd, FALSE>>

\* calculateHandsDistance: the new <<handsDistance, handsDetectedBoth>>
calculateHandsDistance(left, right, hd) ==
    IF left.detected /\ right.detected
    THEN LET dx == left.position.x - right.position.x
             dy == left.position.y - right.position.y
             dz == left.position.z - right.position.z
             currentDistance == ISqrt(dx*dx + dy*dy + dz*dz)
             smoothed == TruncDiv(hd * (100 - HandsSmoothing)
                                  + currentDistance * HandsSmoothing, 100)
             normalizedDistance ==
                 TruncDiv((smoothed - MinDistance) * 100, MaxDistance - MinDistance)
         IN  <<Max2(0, Min2(100, normalizedDistance)), TRUE>>
    ELSE <<hd, FALSE>>

\* One entry of the log `calls`: the slot, what the call read and what it left
CallRecord(label, hand, rd, t) ==
    [ hand          |-> label,
      rawDist       |-> rd.rawDist,
      closedFingers |-> rd.closedFingers,
      prior         |-> [ isPinching      |-> hand.isPinching,
                          lastPinchTime   |-> hand.lastPinchTime,
                          lastGestureTime |-> hand.lastGestureTime ],
      after         |-> updateHandData(hand, rd, t) ]

\* the loop of update() over results.landmarks: <<leftHand, rightHand, calls>>
RECURSIVE ApplyDetections(_, _, _, _, _)
ApplyDetections(results, left, right, log, t) ==
    IF results = <<>> THEN <<left, right, log>>
    ELSE LET r == Head(results)
             target == IF r.categoryName = "Right" THEN right ELSE left
             rec == CallRecord(r.categoryName,
                               [target EXCEPT !.detected = TRUE], r.landmarks, t)
         IN  IF r.categoryName = "Right"
             THEN ApplyDetections(Tail(results), left, rec.after, Append(log, rec), t)
             ELSE ApplyDetections(Tail(results), rec.after, right, Append(log, rec), t)

\* the body of update() on a new video frame: <<leftHand, rightHand, calls>>
ProcessFrame(results, left, right, t) ==
    LET applied == ApplyDetections(results,
                                   [left EXCEPT !.detected = FALSE],
                                   [right EXCEPT !.detected = FALSE], <<>>, t)
        l == applied[1]
        r == applied[2]
    IN  << IF ~l.detected THEN resetHand(l) ELSE l,
           IF ~r.detected THEN resetHand(r) ELSE r,
           applied[3] >>

-----------------------------------------------------------------------------
(* PhotoSystem *)

setCrystalBallLayout(ps) ==
    [ps EXCEPT !.state = "CRYSTAL_BALL", !.selectedIndex = -1,
               !.sphereScale = CrystalBallScale]

\* mutant of setSphereLayout: explode() is not guarded by the state
setSphereLayout_ExplodeAlways(ps) ==
    [ps EXCEPT !.explodeCount = @ + 1,
               !.state = "SPHERE",
               !.selectedIndex = -1,
               !.sphereScale = SphereScaleNormal]

\* mutant of setSphereLayout: the selection is kept
setSphereLayout_KeepsSelection(ps) ==
    [ps EXCEPT !.explodeCount = IF ps.state = "CRYSTAL_BALL" THEN @ + 1 ELSE @,
               !.state = "SPHERE",
               !.sphereScale = SphereScaleNormal]

setSphereLayout(ps) ==
    [ps EXCEPT !.explodeCount = IF ps.state = "CRYSTAL_BALL" THEN @ + 1 ELSE @,
               !.state = "SPHERE",
               !.selectedIndex = -1,
               !.sphereScale = SphereScaleNormal]

\* A position is Rot(rot)(spherePositions[dir] * radius) + (0, 0, z); dir = -1
\* stands for no sphere direction (the zero vector).  bob marks a y overwritten
\* by the DETAIL animation, sin(time * 2) * 0.5, a value within [-0.5, 0.5].
Vec(x, y, z) == [x |-> x, y |-> y, z |-> z]
NoRotation == [x |-> 0, y |-> 0]
Position(dir, radius, rot, z, bob) ==
    [dir |-> dir, radius |-> radius, rot |-> rot, z |-> z, bob |-> bob]

\* the transform of the selected item: in front of the camera, sized by its
\* aspect ratio
CenterTarget(ar) ==
    [ position |-> Position(-1, 0, NoRotation, DetailZ, FALSE),
      scale    |-> Vec(DetailScale * ar, DetailScale * 100, 100) ]

\* the transform of every other item: its sphere direction at 2 * BASE_RADIUS,
\* scale 0
BackgroundTarget(i) ==
    [ position |-> Position(i, BaseRadius * DetailRadiusFactor * 100, NoRotation, 0, FALSE),
      scale    |-> Vec(0, 0, 0) ]

\* mutant of setDetailLayout: the other items keep their targets
setDetailLayout_OthersKept(ps, index) ==
    IF index < 0 \/ index >= Count THEN ps
    ELSE [ps EXCEPT !.state = "DETAIL",
                    !.selectedIndex = index,
                    !.targetTransforms[index] = CenterTarget(ps.aspectRatios[index])]

\* mutant of setDetailLayout: an index out of range selects the nearest item
setDetailLayout_Clamped(ps, index) ==
    LET k == Max2(0, Min2(Count - 1, index))
    IN  [ps EXCEPT !.state = "DETAIL",
                   !.selectedIndex = k,
                   !.targetTransforms =
                       [ i \in 0 .. (Count - 1) |->
                           IF i = k THEN CenterTarget(ps.aspectRatios[k])
                           ELSE BackgroundTarget(i) ]]

setDetailLayout(ps, index) ==
    IF index < 0 \/ index >= Count THEN ps
    ELSE [ps EXCEPT !.state = "DETAIL",
                    !.selectedIndex = index,
                    !.targetTransforms =
                        [ i \in 0 .. (Count - 1) |->
                            IF i = index THEN CenterTarget(ps.aspectRatios[index])
                            ELSE BackgroundTarget(i) ]]

\* the callback of loader.load for item i: the aspect ratio of the image, in
\* hundredths, unless the image has no height
onTextureLoad(ps, i, image) ==
    IF image.height > 0
    THEN [ps EXCEPT !.aspectRatios[i] = TruncDiv(image.width * 100, image.height)]
    ELSE ps

setHovered(ps, index) ==
    IF ps.state # "SPHERE" THEN ps ELSE [ps EXCEPT !.hoveredIndex = index]

rotateSphere(ps, deltaX, deltaY) ==
    [ps EXCEPT !.sphereRotation = [x |-> @.x + deltaY, y |-> @.y + deltaX]]

\* mutant of nextPhoto: the last photo has no next one
nextPhoto_NoWrap(ps) ==
    IF ps.state # "DETAIL" THEN ps
    ELSE setDetailLayout(ps, IF ps.selectedIndex + 1 >= Count THEN Count - 1
                             ELSE ps.selectedIndex + 1)

nextPhoto(ps) ==
    IF ps.state # "DETAIL" THEN ps
    ELSE setDetailLayout(ps, IF ps.selectedIndex + 1 >= Count THEN 0
                             ELSE ps.selectedIndex + 1)

\* mutant of prevPhoto: the layout is not looked at
prevPhoto_AnyLayout(ps) ==
    setDetailLayout(ps, IF ps.selectedIndex - 1 < 0 THEN Count - 1
                        ELSE ps.selectedIndex - 1)

prevPhoto(ps) ==
    IF ps.state # "DETAIL" THEN ps
    ELSE setDetailLayout(ps, IF ps.selectedIndex - 1 < 0 THEN Count - 1
                             ELSE ps.selectedIndex - 1)

\* mutant of setExpansion: the layout is not looked at
setExpansion_AnyLayout(ps, factor) ==
    [ps EXCEPT !.sphereScale = ExpansionBase + factor * ExpansionGain]

setExpansion(ps, factor) ==
    IF ps.state = "SPHERE"
    THEN [ps EXCEPT !.sphereScale = ExpansionBase + factor * ExpansionGain]
    ELSE ps

\* update(): the auto rotation
AutoRotation(ps) ==
    IF ps.state = "CRYSTAL_BALL"
    THEN [ps EXCEPT !.sphereRotation.y = @ + CrystalSpin]
    ELSE IF ps.state = "SPHERE"
    THEN [ps EXCEPT !.sphereRotation.y = @ + SphereSpin]
    ELSE ps

\* update(): the hover intensity of item i eases toward 1 if hovered, else 0
EaseHover(ps, i) ==
    LET targetIntensity == IF i = ps.hoveredIndex /\ ps.state = "SPHERE"
                           THEN 10000 ELSE 0
    IN  ps.hoverIntensities[i]
          + TruncDiv((targetIntensity - ps.hoverIntensities[i]) * HoverEase, 100)

\* update(): the target of item i in CRYSTAL_BALL and SPHERE, for its eased
\* hover intensity
SphereTarget(ps, i, hoverEffect) ==
    LET r      == TruncDiv(BaseRadius * ps.sphereScale, 100)
        pushed == IF hoverEffect > HoverEpsilon
                  THEN TruncDiv(r * (HoverPush + hoverEffect), HoverPush) ELSE r
        baseH  == TruncDiv(BaseHeight * BasePhotoScale * ps.sphereScale, 1000000)
        finalH == IF hoverEffect > HoverEpsilon
                  THEN TruncDiv(baseH * (HoverGrow + hoverEffect), HoverGrow) ELSE baseH
        finalW == TruncDiv(finalH * ps.aspectRatios[i], 100)
    IN  [ position |-> Position(i, pushed, ps.sphereRotation, 0, FALSE),
          scale    |-> Vec(finalW, finalH, 100) ]

\* update(): auto rotation, hover intensities and target transforms.  The
\* roll sphereRotation.z, the target orientations, the eased current
\* transforms and the meshes are not part of the model.
update(ps) ==
    LET p1 == AutoRotation(ps)
    IN  IF p1.state \in {"SPHERE", "CRYSTAL_BALL"}
        THEN LET hover == [ i \in 0 .. (Count - 1) |-> EaseHover(p1, i) ]
             IN  [p1 EXCEPT !.hoverIntensities = hover,
                            !.targetTransforms =
                                [ i \in 0 .. (Count - 1) |-> SphereTarget(p1, i, hover[i]) ]]
        ELSE [p1 EXCEPT !.targetTransforms[p1.selectedIndex].position.bob = TRUE]

\* the PhotoSystem after the constructor
NewPhotoSystem ==
    setCrystalBallLayout(
        [ state            |-> "CRYSTAL_BALL",
          selectedIndex    |-> -1,
          hoveredIndex     |-> -1,
          sphereScale      |-> SphereScaleNormal,
          explodeCount     |-> 0,
          sphereRotation   |-> NoRotation,
          hoverIntensities |-> [ i \in 0 .. (Count - 1) |-> 0 ],
          aspectRatios     |-> [ i \in 0 .. (Count - 1) |-> DefaultAspect ],
          targetTransforms |-> [ i \in 0 .. (Count - 1) |->
                                   [ position |-> Position(-1, 0, NoRotation, 0, FALSE),
                                     scale    |-> Vec(100, 100, 100) ] ] ])

\* mutant of lerp: the former factor 0.1
lerp_Tenth(current, target) ==
    current + TruncDiv((target - current) * 2 * LerpFactor, 100)

\* Vector3.lerp on one component: current += (target - current) * lerpFactor
lerp(current, target) ==
    current + TruncDiv((target - current) * LerpFactor, 100)

\* A current position is followed by its target and its gap to it: the
\* distance to `toward` in ten-thousandths of what it was when the target
\* became `toward`.  A target with bob moves on every tick.
lerpPosition(current, target) ==
    [ toward |-> target,
      gap    |-> IF current.toward = target /\ ~target.bob
                 THEN lerp(current.gap, 0) ELSE lerp(10000, 0) ]

\* update(): the interpolation of the current transforms toward the targets
Interpolate(current, targets) ==
    [ i \in 0 .. (Count - 1) |->
        [ position |-> lerpPosition(current[i].position, targets[i].position),
          scale    |-> Vec(lerp(current[i].scale.x, targets[i].scale.x * 100),
                           lerp(current[i].scale.y, targets[i].scale.y * 100),
                           lerp(current[i].scale.z, targets[i].scale.z * 100)) ] ]

\* the current transforms after initTransforms: at the targets
NewCurrentTransforms ==
    [ i \in 0 .. (Count - 1) |->
        [ position |-> [ toward |-> Position(-1, 0, NoRotation, 0, FALSE), gap |-> 0 ],
          scale    |-> Vec(10000, 10000, 10000) ] ]

\* the pinch gesture the calls of one tick leave per hand slot, if any
LogPinches(log, cs) ==
    [ label \in {"Left", "Right"} |->
        LET seen == { j \in 1..Len(cs) :
                        cs[j].hand = label /\ cs[j].after.gesture \in PinchEdges }
        IN  IF seen = {} THEN log[label]
            ELSE cs[CHOOSE j \in seen : \A k \in seen : k <= j].after.gesture ]

-----------------------------------------------------------------------------
(* main.ts: the callback of the frame loop *)

\* the raycast result: -1 unless the right hand is detected in SPHERE
Raycast(ps, right, hit) ==
    IF right.detected /\ ps.state = "SPHERE" THEN hit ELSE -1

\* mutant of CrystalBallBranch: the pinch opens the first photo at once
CrystalBallBranch_OpensPhoto(ps, left, right) ==
    IF left.gesture = "PINCH_START" \/ right.gesture = "PINCH_START"
    THEN setDetailLayout(setSphereLayout(ps), 0) ELSE ps

\* 1. Crystal Ball: a PINCH_START of either hand
CrystalBallBranch(ps, left, right) ==
    IF left.gesture = "PINCH_START" \/ right.gesture = "PINCH_START"
    THEN setSphereLayout(ps) ELSE ps

\* mutant of SphereSelect: only DOUBLE_PINCH enters DETAIL
SphereSelect_DoubleOnly(ps, right, hovered) ==
    IF right.gesture = "DOUBLE_PINCH" /\ hovered # -1
    THEN setDetailLayout(ps, hovered) ELSE ps

\* 2. Sphere: DOUBLE_PINCH or PINCH_START on a hovered item enters DETAIL
SphereSelect(ps, right, hovered) ==
    LET p1 == IF right.gesture = "DOUBLE_PINCH" /\ hovered # -1
              THEN setDetailLayout(ps, hovered) ELSE ps
    IN  IF right.gesture = "PINCH_START" /\ hovered # -1
        THEN setDetailLayout(p1, hovered) ELSE p1

\* 2. Sphere: the right hand rotates the sphere unless it pinches
SphereRotate(ps, right) ==
    IF ~right.isPinching
    THEN rotateSphere(ps, right.rotationSpeed.x * RotationGain,
                          right.rotationSpeed.y * RotationGain)
    ELSE ps

\* 2. Sphere: auto rotation without the right hand
SphereAutoRotate(ps, left) ==
    IF ~left.detected \/ left.pinchDistance < LeftHoldPinch
    THEN rotateSphere(ps, AutoYaw, 0) ELSE ps

\* mutant of SphereBranch: a pinch of the left hand selects as well
SphereBranch_LeftSelects(ps, left, right, both, zoomFactor, hovered) ==
    LET p1 == IF both THEN setExpansion(ps, zoomFactor) ELSE ps
        p2 == IF right.detected
              THEN SphereSelect(SphereRotate(p1, right), right, hovered)
              ELSE SphereAutoRotate(p1, left)
    IN  IF left.gesture = "PINCH_START" /\ hovered # -1
        THEN setDetailLayout(p2, hovered) ELSE p2

\* mutant of SphereBranch: the zoom follows handsDistance with any hands
SphereBranch_AlwaysZoom(ps, left, right, both, zoomFactor, hovered) ==
    LET p1 == setExpansion(ps, zoomFactor)
    IN  IF right.detected THEN SphereSelect(SphereRotate(p1, right), right, hovered)
        ELSE SphereAutoRotate(p1, left)

\* 2. Sphere: zoom with both hands, then rotation and selection
SphereBranch(ps, left, right, both, zoomFactor, hovered) ==
    LET p1 == IF both THEN setExpansion(ps, zoomFactor) ELSE ps
    IN  IF right.detected THEN SphereSelect(SphereRotate(p1, right), right, hovered)
        ELSE SphereAutoRotate(p1, left)

\* mutant of DetailBranch: FIST goes back to the crystal ball
DetailBranch_FistToCrystalBall(ps, right) ==
    IF right.detected
    THEN LET p1 == IF right.gesture = "SWIPE_LEFT" THEN nextPhoto(ps)
                   ELSE IF right.gesture = "SWIPE_RIGHT" THEN prevPhoto(ps)
                   ELSE ps
         IN  IF right.gesture = "FIST" THEN setCrystalBallLayout(p1) ELSE p1
    ELSE ps

\* 3. Detail: swipes step through the photos, FIST goes back to the sphere
DetailBranch(ps, right) ==
    IF right.detected
    THEN LET p1 == IF right.gesture = "SWIPE_LEFT" THEN nextPhoto(ps)
                   ELSE IF right.gesture = "SWIPE_RIGHT" THEN prevPhoto(ps)
                   ELSE ps
         IN  IF right.gesture = "FIST" THEN setSphereLayout(p1) ELSE p1
    ELSE ps

\* mutant of InteractionLogic: three separate ifs, the ray cast where the
\* sphere branch begins
InteractionLogic_SeparateIfs(ps, left, right, both, zoomFactor, hit) ==
    LET p0 == setHovered(ps, Raycast(ps, right, hit))
        p1 == IF p0.state = "CRYSTAL_BALL" THEN CrystalBallBranch(p0, left, right)
              ELSE p0
        p2 == IF p1.state = "SPHERE"
              THEN SphereBranch(p1, left, right, both, zoomFactor,
                                Raycast(p1, right, hit))
              ELSE p1
    IN  IF p2.state = "DETAIL" THEN DetailBranch(p2, right) ELSE p2

\* raycasting, setHovered and the interaction logic
InteractionLogic(ps, left, right, both, zoomFactor, hit) ==
    LET hovered == Raycast(ps, right, hit)
        p0 == setHovered(ps, hovered)
    IN  IF p0.state = "CRYSTAL_BALL" THEN CrystalBallBranch(p0, left, right)
        ELSE IF p0.state = "SPHERE"
        THEN SphereBranch(p0, left, right, both, zoomFactor, hovered)
        ELSE DetailBranch(p0, right)

\* the callback of the frame loop after visionManager.update()
FrameCallback(ps, left, right, both, zoomFactor, hit) ==
    update(InteractionLogic(ps, left, right, both, zoomFactor, hit))

-----------------------------------------------------------------------------
(* main.ts: init() up to threeScene.start *)

\* init() has called visionManager.initialize() and set the timer, and awaits
\* Promise.race.  vision is the stage of initialize(): "resolver" awaiting
\* FilesetResolver.forVisionTasks, "landmarker" awaiting
\* HandLandmarker.createFromOptions, "webcam" awaiting startWebcam, then
\* "resolved" or "rejected".
AwaitingVision ==
    [ vision          |-> "resolver",
      handLandmarker  |-> FALSE,
      isWebcamRunning |-> FALSE,
      timer           |-> "set",
      race            |-> "pending",
      loopStarted     |-> FALSE ]

\* initialize() resolved before the timer fired, the video has data and the
\* frame loop runs
VisionRunning ==
    [ vision          |-> "resolved",
      handLandmarker  |-> TRUE,
      isWebcamRunning |-> TRUE,
      timer           |-> "set",
      race            |-> "fulfilled",
      loopStarted     |-> TRUE ]

\* Promise.race settles as the first of its promises to settle
RaceSettles(st, outcome) ==
    IF st.race = "pending" THEN [st EXCEPT !.race = outcome] ELSE st

\* an await of initialize() completes: the next stage, and resolved at the end
initializeAdvances(st) ==
    IF st.vision = "resolver" THEN [st EXCEPT !.vision = "landmarker"]
    ELSE IF st.vision = "landmarker"
    THEN [st EXCEPT !.vision = "webcam", !.handLandmarker = TRUE]
    ELSE RaceSettles([st EXCEPT !.vision = "resolved"], "fulfilled")

\* an await of initialize() throws: initialize() rethrows
initializeThrows(st) ==
    RaceSettles([st EXCEPT !.vision = "rejected"], "rejected")

\* the callback of setTimeout rejects timeoutPromise
timeoutFires(st) ==
    RaceSettles([st EXCEPT !.timer = "fired"], "rejected")

\* mutant of startLoop: the loop is started only if vision loaded
startLoop_OnlyWithVision(st) ==
    IF st.race = "fulfilled" THEN [st EXCEPT !.loopStarted = TRUE] ELSE st

\* init() after the await, with or without the catch: threeScene.start
startLoop(st) ==
    [st EXCEPT !.loopStarted = TRUE]

-----------------------------------------------------------------------------
(* Inputs *)

Pt(x, y) == [x |-> x, y |-> y, z |-> 0]

\* A hand of 21 landmarks, of which the program reads 0, 4, 5, 8, 12, 16, 17
\* and 20.  (ox, oy) moves the whole hand; pinched puts the thumb tip 0.05
\* from the index tip, else 0.30; curl closes fingers: 0 none; 2 middle and
\* ring, the pinky exactly 0.15 from the wrist; 3 middle, ring and pinky.
Pose(ox, oy, pinched, curl) ==
    LET bx == 50 + ox
        by == 62 + oy
        far  == Pt(bx, by - 22)
        near == Pt(bx, by - 10)
        edge == Pt(bx + 9, by - 12)
    IN  [ i \in {0, 4, 5, 8, 12, 16, 17, 20} |->
            CASE i = 0  -> Pt(bx, by)
              [] i = 5  -> Pt(bx - 6, by - 18)
              [] i = 17 -> Pt(bx + 6, by - 18)
              [] i = 8  -> Pt(bx, by - 17)
              [] i = 4  -> Pt(bx + (IF pinched THEN 5 ELSE 30), by - 17)
              [] i = 12 -> IF curl >= 2 THEN near ELSE far
              [] i = 16 -> IF curl >= 2 THEN near ELSE far
              [] i = 20 -> IF curl >= 3 THEN near ELSE IF curl = 2 THEN edge ELSE far ]

\* one detected hand: its handedness label and the reading of its landmarks
Detection(label, lm) == [categoryName |-> label, landmarks |-> Reading(lm)]

\* results of detectForVideo with at most one hand per handedness label
Results(leftPoses, rightPoses) ==
    {<<>>}
    \cup { <<Detection("Left", l)>> : l \in leftPoses }
    \cup { <<Detection("Right", r)>> : r \in rightPoses }
    \cup { <<Detection("Left", l), Detection("Right", r)>> :
             l \in leftPoses, r \in rightPoses }

\* the swipes classified by the calls of one tick, appended per hand slot
LogSwipes(log, cs, t) ==
    [ label \in {"Left", "Right"} |->
        log[label] \o [ i \in 1..Cardinality({ j \in 1..Len(cs) :
                                cs[j].hand = label /\ cs[j].after.gesture \in Swipes })
                        |-> t ] ]

-----------------------------------------------------------------------------
(* The frame loop *)

Init ==
    /\ now = StartTime
    /\ leftHand = createEmptyHandData
    /\ rightHand = createEmptyHandData
    /\ handsDistance = 0
    /\ handsDetectedBoth = FALSE
    /\ photoSystem = NewPhotoSystem
    /\ currentTransforms = NewCurrentTransforms
    /\ startup = VisionRunning
    /\ layoutBefore = "CRYSTAL_BALL"
    /\ lastCall = [op |-> "constructor", arg |-> 0, n |-> 0]
    /\ frameProcessed = FALSE
    /\ calls = <<>>
    /\ swipeTimes = [label \in {"Left", "Right"} |-> <<>>]
    /\ pinchSeen = [label \in {"Left", "Right"} |-> "NONE"]

\* a tick on which update() returns early or the video frame is not new
TickNoFrame(dt, hit, maxTime) ==
    /\ now + dt <= maxTime
    /\ now' = now + dt
    /\ UNCHANGED <<leftHand, rightHand, handsDistance, handsDetectedBoth>>
    /\ UNCHANGED <<currentTransforms, startup>>
    /\ layoutBefore' = photoSystem.state
    /\ UNCHANGED lastCall
    /\ frameProcessed' = FALSE
    /\ calls' = <<>>
    /\ UNCHANGED <<swipeTimes, pinchSeen>>
    /\ photoSystem' = FrameCallback(photoSystem, leftHand, rightHand,
                                    handsDetectedBoth, handsDistance, hit)

\* a tick on which update() processes a new video frame
TickFrame(dt, results, hit, maxTime) ==
    /\ now + dt <= maxTime
    /\ now' = now + dt
    /\ \E f \in {ProcessFrame(results, leftHand, rightHand, now + dt)} :
       \E hd \in {calculateHandsDistance(f[1], f[2], handsDistance)} :
           /\ leftHand' = f[1]
           /\ rightHand' = f[2]
           /\ calls' = f[3]
           /\ swipeTimes' = LogSwipes(swipeTimes, f[3], now + dt)
           /\ pinchSeen' = LogPinches(pinchSeen, f[3])
           /\ handsDistance' = hd[1]
           /\ handsDetectedBoth' = hd[2]
           /\ photoSystem' = FrameCallback(photoSystem, f[1], f[2],
                                           hd[2], hd[1], hit)
    /\ UNCHANGED <<currentTransforms, startup>>
    /\ layoutBefore' = photoSystem.state
    /\ UNCHANGED lastCall
    /\ frameProcessed' = TRUE

\* what the raycast can return: an item id, or -1 for no intersection
Hits(ps, rightDetected) ==
    IF rightDetected /\ ps.state = "SPHERE" THEN -1 .. (Count - 1) ELSE {-1}

RightIn(results) == \E i \in 1..Len(results) : results[i].categoryName = "Right"

-----------------------------------------------------------------------------
(* Spec: both hands, pinches and fists *)

Dts == {100, 400}

LeftPoses == { Pose(-20, 0, FALSE, 0), Pose(-20, 0, TRUE, 0) }
RightPoses == { Pose(20, 0, FALSE, 0), Pose(20, 0, TRUE, 0),
                Pose(20, 0, FALSE, 3), Pose(20, 0, TRUE, 3) }
AllResults == Results(LeftPoses, RightPoses)

NoFrame ==
    \E dt \in Dts, hit \in Hits(photoSystem, rightHand.detected) :
        TickNoFrame(dt, hit, MaxTime)

Frame ==
    \E dt \in Dts, results \in AllResults :
        \E hit \in Hits(photoSystem, RightIn(results)) :
            TickFrame(dt, results, hit, MaxTime)

Next == NoFrame \/ Frame
Spec == Init /\ [][Next]_vars

-----------------------------------------------------------------------------
(* SpecHand: one hand that pinches, curls its fingers and moves *)

HandPoses == { Pose(20, 0, FALSE, 0), Pose(24, 0, FALSE, 0), Pose(20, 4, FALSE, 0),
               Pose(20, 0, TRUE, 0), Pose(20, 0, FALSE, 3), Pose(20, 0, TRUE, 3),
               Pose(24, 0, FALSE, 2) }
HandResults == Results({}, HandPoses)

\* the cursor ray meets no item
NoHit == -1

HandNoFrame ==
    \E dt \in Dts : TickNoFrame(dt, NoHit, HandMaxTime)

HandFrame ==
    \E dt \in Dts, results \in HandResults :
        TickFrame(dt, results, NoHit, HandMaxTime)

NextHand == HandNoFrame \/ HandFrame
SpecHand == Init /\ [][NextHand]_vars

-----------------------------------------------------------------------------
(* SpecZoom: two open hands far apart or at the same place, and a pinch of   *)
(* the right hand that leaves the crystal ball                               *)

ZoomLeftPoses == { Pose(-38, 28, FALSE, 0), Pose(15, -28, FALSE, 0) }
ZoomRightPoses == { Pose(15, -28, FALSE, 0), Pose(15, -28, TRUE, 0) }
ZoomResults == Results(ZoomLeftPoses, ZoomRightPoses)
ZoomDts == {100}

ZoomNoFrame ==
    \E dt \in ZoomDts, hit \in Hits(photoSystem, rightHand.detected) :
        TickNoFrame(dt, hit, ZoomMaxTime)

ZoomFrame ==
    \E dt \in ZoomDts, results \in ZoomResults :
        \E hit \in Hits(photoSystem, RightIn(results)) :
            TickFrame(dt, results, hit, ZoomMaxTime)

NextZoom == ZoomNoFrame \/ ZoomFrame
SpecZoom == Init /\ [][NextZoom]_vars

-----------------------------------------------------------------------------
(* SpecIdle: no hand is ever seen: update() returns early, or the frame has  *)
(* no hands.  The frame loop goes on ticking.  Pointer and keyboard events   *)
(* have no listener in main.ts, UIManager, PhotoSystem or VisionManager and  *)
(* change nothing.                                                           *)

IdleNoFrame ==
    \E dt \in Dts : TickNoFrame(dt, NoHit, IdleMaxTime)

IdleFrame ==
    \E dt \in Dts : TickFrame(dt, <<>>, NoHit, IdleMaxTime)

NextIdle == IdleNoFrame \/ IdleFrame
SpecIdle == Init /\ [][NextIdle]_vars /\ WF_vars(NextIdle)

-----------------------------------------------------------------------------
(* SpecStart: init() from the call of visionManager.initialize(), and the    *)
(* frame loop once it is started                                             *)

StartDts == {2000}
StartResults == { <<>>, <<Detection("Right", Pose(20, 0, TRUE, 0))>> }

StartInit ==
    /\ now = 0
    /\ leftHand = createEmptyHandData
    /\ rightHand = createEmptyHandData
    /\ handsDistance = 0
    /\ handsDetectedBoth = FALSE
    /\ photoSystem = NewPhotoSystem
    /\ currentTransforms = NewCurrentTransforms
    /\ startup = AwaitingVision
    /\ layoutBefore = "CRYSTAL_BALL"
    /\ lastCall = [op |-> "constructor", arg |-> 0, n |-> 0]
    /\ frameProcessed = FALSE
    /\ calls = <<>>
    /\ swipeTimes = [label \in {"Left", "Right"} |-> <<>>]
    /\ pinchSeen = [label \in {"Left", "Right"} |-> "NONE"]

\* the timer fires once 8000 ms have passed: the clock does not go beyond
\* that while the timer is set
TimerAllows(dt) == startup.timer = "set" => now + dt <= VisionTimeout

\* a step of init() or an event it waits for
StartEvent(st) ==
    /\ startup' = st
    /\ UNCHANGED <<now, leftHand, rightHand, handsDistance, handsDetectedBoth,
                   photoSystem, currentTransforms, layoutBefore, lastCall,
                   frameProcessed, calls, swipeTimes,
                   pinchSeen>>

\* time passes before the frame loop is started
StartWait ==
    /\ ~startup.loopStarted
    /\ \E dt \in StartDts :
          /\ TimerAllows(dt)
          /\ now + dt <= StartMaxTime
          /\ now' = now + dt
    /\ UNCHANGED <<leftHand, rightHand, handsDistance, handsDetectedBoth,
                   photoSystem, currentTransforms, startup, layoutBefore, lastCall,
                   frameProcessed, calls, swipeTimes,
                   pinchSeen>>

VisionAdvances ==
    /\ startup.vision \in {"resolver", "landmarker", "webcam"}
    /\ StartEvent(initializeAdvances(startup))

VisionThrows ==
    /\ startup.vision \in {"resolver", "landmarker", "webcam"}
    /\ StartEvent(initializeThrows(startup))

\* the video element fires loadeddata
WebcamLoaded ==
    /\ startup.vision = "resolved" /\ ~startup.isWebcamRunning
    /\ StartEvent([startup EXCEPT !.isWebcamRunning = TRUE])

TimeoutFires ==
    /\ startup.timer = "set" /\ now >= VisionTimeout
    /\ StartEvent(timeoutFires(startup))

\* the await of Promise.race returns or throws, and init() goes on
StartLoop ==
    /\ startup.race # "pending" /\ ~startup.loopStarted
    /\ StartEvent(startLoop(startup))

StartNoFrame ==
    /\ startup.loopStarted
    /\ \E dt \in StartDts : TimerAllows(dt) /\ TickNoFrame(dt, NoHit, StartMaxTime)

StartFrame ==
    /\ startup.loopStarted /\ startup.handLandmarker /\ startup.isWebcamRunning
    /\ \E dt \in StartDts, results \in StartResults :
          TimerAllows(dt) /\ TickFrame(dt, results, NoHit, StartMaxTime)

NextStart ==
    \/ StartWait
    \/ VisionAdvances
    \/ VisionThrows
    \/ WebcamLoaded
    \/ TimeoutFires
    \/ StartLoop
    \/ StartNoFrame
    \/ StartFrame
SpecStart ==
    /\ StartInit /\ [][NextStart]_vars
    /\ WF_vars(StartWait) /\ WF_vars(TimeoutFires) /\ WF_vars(StartLoop)

-----------------------------------------------------------------------------
(* SpecPhoto: the public methods of PhotoSystem, called in any order *)

\* one method call: the PhotoSystem it leaves, and its name and argument
Call(op, arg, ps) ==
    /\ lastCall.n < MaxCalls
    /\ photoSystem' = ps
    /\ layoutBefore' = photoSystem.state
    /\ lastCall' = [op |-> op, arg |-> arg, n |-> lastCall.n + 1]
    /\ UNCHANGED <<now, leftHand, rightHand, handsDistance, handsDetectedBoth,
                   currentTransforms, startup, frameProcessed, calls, swipeTimes,
                   pinchSeen>>

\* valid indices and one beyond each end
Indices == -1 .. Count
\* zoom factors: hands together, half way, hands apart
Factors == {0, 50, 100}

CallSetSphereLayout == Call("setSphereLayout", 0, setSphereLayout(photoSystem))
CallSetDetailLayout ==
    \E index \in Indices : Call("setDetailLayout", index, setDetailLayout(photoSystem, index))
CallSetHovered ==
    \E index \in -1 .. (Count - 1) : Call("setHovered", index, setHovered(photoSystem, index))
CallRotateSphere == Call("rotateSphere", AutoYaw, rotateSphere(photoSystem, AutoYaw, 0))
CallNextPhoto == Call("nextPhoto", 0, nextPhoto(photoSystem))
CallPrevPhoto == Call("prevPhoto", 0, prevPhoto(photoSystem))
CallSetExpansion ==
    \E factor \in Factors : Call("setExpansion", factor, setExpansion(photoSystem, factor))
CallUpdate == Call("update", 0, update(photoSystem))

NextCall ==
    \/ CallSetSphereLayout
    \/ CallSetDetailLayout
    \/ CallSetHovered
    \/ CallRotateSphere
    \/ CallNextPhoto
    \/ CallPrevPhoto
    \/ CallSetExpansion
    \/ CallUpdate
SpecPhoto == Init /\ [][NextCall]_vars

-----------------------------------------------------------------------------
(* SpecLoad: the methods of PhotoSystem and the texture load callbacks, in   *)
(* any order                                                                 *)

\* the image of item i: landscape 3:2 for even items, portrait 2:3 for odd
\* ones, and an image without height
ImagesOf(i) ==
    { IF i % 2 = 0 THEN [width |-> 300, height |-> 200]
                   ELSE [width |-> 200, height |-> 300],
      [width |-> 300, height |-> 0] }

\* the texture of item i arrives; a texture is loaded once, and an item whose
\* aspect ratio is still the default has not been given one
TextureLoaded ==
    \E i \in 0 .. (Count - 1) :
        /\ photoSystem.aspectRatios[i] = DefaultAspect
        /\ \E image \in ImagesOf(i) :
               Call("onTextureLoad", i, onTextureLoad(photoSystem, i, image))

NextLoad == NextCall \/ TextureLoaded
SpecLoad == Init /\ [][NextLoad]_vars

-----------------------------------------------------------------------------
(* SpecBall: the frame loop with two hands apart or one pinching hand, and   *)
(* setExpansion called with any factor in any layout                         *)

BallLeftPoses == { Pose(-38, 28, FALSE, 0) }
BallRightPoses == { Pose(15, -28, FALSE, 0), Pose(15, -28, TRUE, 0) }
BallResults == Results(BallLeftPoses, BallRightPoses)

BallNoFrame ==
    \E dt \in ZoomDts : TickNoFrame(dt, NoHit, BallMaxTime)

BallFrame ==
    \E dt \in ZoomDts, results \in BallResults :
        TickFrame(dt, results, NoHit, BallMaxTime)

NextBall == BallNoFrame \/ BallFrame \/ CallSetExpansion
SpecBall == Init /\ [][NextBall]_vars

-----------------------------------------------------------------------------
(* SpecPinch: a right hand that holds still and moves its thumb tip: every   *)
(* raw thumb-to-index distance from 0 to beyond maxP                         *)

\* the open hand Pose(20, 0, FALSE, 0) with the thumb tip gx to the left of
\* the index tip and gy below it
PinchPose(gx, gy) ==
    LET open == Pose(20, 0, FALSE, 0)
    IN  [open EXCEPT ![4] = Pt(open[8].x - gx, open[8].y + gy)]

PinchPoses == { PinchPose(gx, gy) : gx \in 0 .. MaxPinchGap, gy \in {0, 4} }
PinchResults == Results({}, PinchPoses)

PinchNoFrame ==
    \E dt \in ZoomDts : TickNoFrame(dt, NoHit, PinchMaxTime)

PinchFrame ==
    \E dt \in ZoomDts, results \in PinchResults :
        TickFrame(dt, results, NoHit, PinchMaxTime)

NextPinch == PinchNoFrame \/ PinchFrame
SpecPinch == Init /\ [][NextPinch]_vars

-----------------------------------------------------------------------------
(* SpecSwipe: a right hand that pinches an item and then moves sideways,     *)
(* with render ticks between the processed video frames                      *)

SwipePoses == { Pose(20, 0, TRUE, 0), Pose(20, 0, FALSE, 0), Pose(24, 0, FALSE, 0),
                Pose(20, 0, FALSE, 3) }
SwipeResults == Results({}, SwipePoses)
\* the ray of the right hand's cursor meets item 0 or nothing, in any layout;
\* the callback casts it only in SPHERE
SwipeHits == {NoHit, 0}

SwipeNoFrame ==
    \E dt \in ZoomDts, hit \in SwipeHits :
        TickNoFrame(dt, hit, SwipeMaxTime)

SwipeFrame ==
    \E dt \in ZoomDts, results \in SwipeResults, hit \in SwipeHits :
        TickFrame(dt, results, hit, SwipeMaxTime)

NextSwipe == SwipeNoFrame \/ SwipeFrame
SpecSwipe == Init /\ [][NextSwipe]_vars

-----------------------------------------------------------------------------
(* SpecTwin: up to two hands (numHands: 2) with any handedness labels, also  *)
(* the same label twice                                                      *)

TwinPoses == { Pose(20, 0, FALSE, 0), Pose(24, 0, FALSE, 0), Pose(-20, 0, TRUE, 0) }
TwinResults ==
    Results(TwinPoses, TwinPoses)
    \cup { <<Detection(label, p), Detection(label, q)>> :
             label \in {"Left", "Right"}, p \in TwinPoses, q \in TwinPoses }

TwinNoFrame ==
    \E dt \in ZoomDts : TickNoFrame(dt, NoHit, TwinMaxTime)

TwinFrame ==
    \E dt \in ZoomDts, results \in TwinResults :
        TickFrame(dt, results, NoHit, TwinMaxTime)

NextTwin == TwinNoFrame \/ TwinFrame
SpecTwin == Init /\ [][NextTwin]_vars

-----------------------------------------------------------------------------
(* SpecHold: both hands open and detected on every frame, the right hand in  *)
(* place, the left hand 0.45 or 0.73 from it                                 *)

HoldLeftPoses == { Pose(-22, 0, FALSE, 0), Pose(-50, 0, FALSE, 0) }
HoldRightPoses == { Pose(23, 0, FALSE, 0) }
HoldResults ==
    { <<Detection("Left", l), Detection("Right", r)>> :
        l \in HoldLeftPoses, r \in HoldRightPoses }

HoldNoFrame ==
    \E dt \in ZoomDts : TickNoFrame(dt, NoHit, HoldMaxTime)

HoldFrame ==
    \E dt \in ZoomDts, results \in HoldResults :
        TickFrame(dt, results, NoHit, HoldMaxTime)

NextHold == HoldNoFrame \/ HoldFrame
SpecHold == Init /\ [][NextHold]_vars

-----------------------------------------------------------------------------
(* SpecDetail: the frame loop with two hands apart, the right hand off       *)
(* centre, pinching an item or making a fist, the cursor ray on item 0 or on *)
(* nothing, and nextPhoto and prevPhoto called in any layout                 *)

DetailRightPoses == BallRightPoses \cup { Pose(15, -28, FALSE, 3) }
DetailResults == Results(BallLeftPoses, DetailRightPoses)

DetailNoFrame ==
    \E dt \in ZoomDts, hit \in SwipeHits :
        TickNoFrame(dt, hit, DetailMaxTime)

DetailFrame ==
    \E dt \in ZoomDts, results \in DetailResults, hit \in SwipeHits :
        TickFrame(dt, results, hit, DetailMaxTime)

NextDetail == DetailNoFrame \/ DetailFrame \/ CallNextPhoto \/ CallPrevPhoto
SpecDetail == Init /\ [][NextDetail]_vars

-----------------------------------------------------------------------------
(* SpecLerp: the layout changes main.ts makes and update() with its         *)
(* interpolation; in DETAIL the next layout change comes once the items have *)
(* come to rest, and update() is called again and again                      *)

\* item i has come to rest: another interpolation step leaves it where it is
ItemAtRest(i) ==
    LET t == photoSystem.targetTransforms[i]
        c == currentTransforms[i]
    IN  /\ lerp(c.scale.x, t.scale.x * 100) = c.scale.x
        /\ lerp(c.scale.y, t.scale.y * 100) = c.scale.y
        /\ lerp(c.scale.z, t.scale.z * 100) = c.scale.z
        /\ \/ t.position.bob
           \/ c.position.toward = t.position /\ lerp(c.position.gap, 0) = c.position.gap

AtRest == \A i \in 0 .. (Count - 1) : ItemAtRest(i)

\* one step of SpecLerp: the PhotoSystem and the current transforms it leaves
LerpStep(op, arg, ps, current) ==
    /\ photoSystem' = ps
    /\ currentTransforms' = current
    /\ layoutBefore' = photoSystem.state
    /\ lastCall' = [op |-> op, arg |-> arg, n |-> 0]
    /\ UNCHANGED <<now, leftHand, rightHand, handsDistance, handsDetectedBoth,
                   startup, frameProcessed, calls, swipeTimes,
                   pinchSeen>>

\* setSphereLayout, from CRYSTAL_BALL or from DETAIL
LerpSphere ==
    /\ photoSystem.state = "CRYSTAL_BALL" \/ (photoSystem.state = "DETAIL" /\ AtRest)
    /\ LerpStep("setSphereLayout", 0, setSphereLayout(photoSystem), currentTransforms)

\* setDetailLayout of an item, from SPHERE
LerpDetail ==
    /\ photoSystem.state = "SPHERE"
    /\ \E index \in 0 .. (Count - 1) :
           LerpStep("setDetailLayout", index, setDetailLayout(photoSystem, index),
                    currentTransforms)

\* nextPhoto and prevPhoto, in DETAIL
LerpNext ==
    /\ photoSystem.state = "DETAIL" /\ AtRest
    /\ LerpStep("nextPhoto", 0, nextPhoto(photoSystem), currentTransforms)

LerpPrev ==
    /\ photoSystem.state = "DETAIL" /\ AtRest
    /\ LerpStep("prevPhoto", 0, prevPhoto(photoSystem), currentTransforms)

\* update(): the targets, then the interpolation toward them
LerpUpdate ==
    /\ photoSystem.state = "DETAIL" \/ photoSystem.sphereRotation.y < LerpMaxAngle
    /\ \E ps \in {update(photoSystem)} :
           LerpStep("update", 0, ps, Interpolate(currentTransforms, ps.targetTransforms))

NextLerp == LerpSphere \/ LerpDetail \/ LerpNext \/ LerpPrev \/ LerpUpdate
SpecLerp == Init /\ [][NextLerp]_vars /\ WF_vars(LerpUpdate)

-----------------------------------------------------------------------------
(* Properties *)

HandOf(label) == IF label = "Right" THEN rightHand ELSE leftHand

CallsOf(label) == { i \in 1..Len(calls) : calls[i].hand = label }

Rising(c) == ~c.prior.isPinching /\ c.after.isPinching
Falling(c) == c.prior.isPinching /\ ~c.after.isPinching
Edge(c) == Rising(c) \/ Falling(c)

\* C1: explode() is called exactly when a tick takes the layout from
\* CRYSTAL_BALL to SPHERE, so it has been called once in every state that has
\* left CRYSTAL_BALL and never before; a setSphereLayout made in SPHERE or in
\* DETAIL does not call it.
C1_ExplodeOncePerTransition ==
    /\ [](photoSystem.explodeCount =
              IF photoSystem.state = "CRYSTAL_BALL" THEN 0 ELSE 1)
    /\ [][ photoSystem'.explodeCount =
             photoSystem.explodeCount
               + (IF photoSystem.state = "CRYSTAL_BALL" /\ photoSystem'.state = "SPHERE"
                  THEN 1 ELSE 0) ]_vars

\* C1 witness: a tick that began in DETAIL has called setSphereLayout on a
\* FIST, while the left hand's gesture is PINCH_START, and explode() has still
\* been called once.
C1_Witness ==
    /\ layoutBefore = "DETAIL"
    /\ photoSystem.state = "SPHERE"
    /\ photoSystem.explodeCount = 1
    /\ rightHand.detected /\ rightHand.gesture = "FIST"
    /\ leftHand.gesture = "PINCH_START"

\* C2: in CRYSTAL_BALL, a tick on which the left or the right hand's gesture is
\* PINCH_START or DOUBLE_PINCH ends in SPHERE with sphereScale = 1.0.
C2_AnyPinchLeavesCrystalBall ==
    [][ ( /\ photoSystem.state = "CRYSTAL_BALL"
          /\ \/ leftHand'.gesture \in {"PINCH_START", "DOUBLE_PINCH"}
             \/ rightHand'.gesture \in {"PINCH_START", "DOUBLE_PINCH"} )
        => ( photoSystem'.state = "SPHERE" /\ photoSystem'.sphereScale = 10000 ) ]_vars

\* C3: in every state a tick leaves, a hand's gesture is NONE unless
\* updateHandData classified that hand on that tick.
C3_GestureNoneUnlessClassified ==
    \A label \in {"Left", "Right"} :
        HandOf(label).gesture # "NONE" => frameProcessed /\ CallsOf(label) # {}

\* C4: a processed frame on which a hand is not detected leaves that hand
\* with velocity (0,0), rotationSpeed (0,0), pinchDistance 0 and gesture NONE
\* and with its position, cursor, lastPinchTime and lastGestureTime unchanged.
C4_LostHandIsReset ==
    [][ frameProcessed' =>
          /\ ~leftHand'.detected =>
                /\ leftHand'.velocity = [x |-> 0, y |-> 0]
                /\ leftHand'.rotationSpeed = [x |-> 0, y |-> 0]
                /\ leftHand'.pinchDistance = 0
                /\ leftHand'.gesture = "NONE"
                /\ leftHand'.position = leftHand.position
                /\ leftHand'.cursor = leftHand.cursor
                /\ leftHand'.lastPinchTime = leftHand.lastPinchTime
                /\ leftHand'.lastGestureTime = leftHand.lastGestureTime
          /\ ~rightHand'.detected =>
                /\ rightHand'.velocity = [x |-> 0, y |-> 0]
                /\ rightHand'.rotationSpeed = [x |-> 0, y |-> 0]
                /\ rightHand'.pinchDistance = 0
                /\ rightHand'.gesture = "NONE"
                /\ rightHand'.position = rightHand.position
                /\ rightHand'.cursor = rightHand.cursor
                /\ rightHand'.lastPinchTime = rightHand.lastPinchTime
                /\ rightHand'.lastGestureTime = rightHand.lastGestureTime ]_vars

\* C5 as claimed: a call on which a pinch edge fires leaves the pinch-edge
\* gesture, whatever the fingers; FIST is left only by calls without an edge.
C5_PinchEdgeFirst ==
    \A i \in 1..Len(calls) :
        /\ Rising(calls[i]) => calls[i].after.gesture \in {"PINCH_START", "DOUBLE_PINCH"}
        /\ Falling(calls[i]) => calls[i].after.gesture = "PINCH_END"
        /\ calls[i].after.gesture = "FIST" => ~Edge(calls[i])

\* C5 as amended: FIST comes first.  A call that sees three or more closed
\* fingertips leaves FIST, also when a pinch edge fires on it; a pinch edge
\* leaves its pinch-edge gesture only with fewer than three closed fingertips.
C5_FistFirst ==
    \A i \in 1..Len(calls) :
        /\ calls[i].after.gesture = "FIST" <=> calls[i].closedFingers >= 3
        /\ (Rising(calls[i]) /\ calls[i].closedFingers < 3)
              => calls[i].after.gesture \in {"PINCH_START", "DOUBLE_PINCH"}
        /\ (Falling(calls[i]) /\ calls[i].closedFingers < 3)
              => calls[i].after.gesture = "PINCH_END"

\* C5 witness: a pinch edge fired on a call that saw a fist, and FIST was left.
C5_Witness ==
    \E i \in 1..Len(calls) :
        /\ Edge(calls[i])
        /\ calls[i].closedFingers >= 3
        /\ calls[i].after.gesture = "FIST"

\* C6 as claimed: a rising edge leaves DOUBLE_PINCH if less than 400 ms have
\* passed since the hand's previous rising edge, and PINCH_START otherwise.
C6_DoublePinchWindow ==
    \A i \in 1..Len(calls) :
        Rising(calls[i]) =>
            calls[i].after.gesture =
                IF now - calls[i].prior.lastPinchTime < 400
                THEN "DOUBLE_PINCH" ELSE "PINCH_START"

\* C6 as amended: that holds of the rising edges seen with fewer than three
\* closed fingertips.  Every rising edge, also one that leaves FIST, is the
\* previous rising edge of the next one: lastPinchTime is the time of the
\* hand's latest rising edge.
C6_DoublePinchWindowOpenHand ==
    \A i \in 1..Len(calls) :
        /\ (Rising(calls[i]) /\ calls[i].closedFingers < 3) =>
              calls[i].after.gesture =
                  IF now - calls[i].prior.lastPinchTime < 400
                  THEN "DOUBLE_PINCH" ELSE "PINCH_START"
        /\ calls[i].after.lastPinchTime =
              IF Rising(calls[i]) THEN now ELSE calls[i].prior.lastPinchTime
        /\ calls[i].after.gesture \in {"PINCH_START", "DOUBLE_PINCH"} => Rising(calls[i])

\* C6 witness: a rising edge exactly 400 ms after the previous one leaves
\* PINCH_START.
C6_Witness ==
    \E i \in 1..Len(calls) :
        /\ Rising(calls[i])
        /\ calls[i].prior.lastPinchTime > 0
        /\ now - calls[i].prior.lastPinchTime = 400
        /\ calls[i].after.gesture = "PINCH_START"

\* C7 as claimed: the gesture a call leaves is PINCH_START exactly when the
\* pinching status rises, PINCH_END exactly when it falls, and NONE whenever
\* it does not change.
C7_EdgeTriggered ==
    \A i \in 1..Len(calls) :
        /\ calls[i].after.gesture = "PINCH_START" <=> Rising(calls[i])
        /\ calls[i].after.gesture = "PINCH_END" <=> Falling(calls[i])
        /\ ~Edge(calls[i]) => calls[i].after.gesture = "NONE"

\* C7 as amended: for a call that sees fewer than three closed fingertips, the
\* gesture is PINCH_START or DOUBLE_PINCH exactly when the pinching status
\* rises and PINCH_END exactly when it falls; when the status does not change
\* it is NONE or a swipe, and NONE if the hand moves no faster than the swipe
\* threshold.
C7_EdgeTriggeredOpenHand ==
    \A i \in 1..Len(calls) :
        calls[i].closedFingers < 3 =>
            /\ calls[i].after.gesture \in {"PINCH_START", "DOUBLE_PINCH"} <=> Rising(calls[i])
            /\ calls[i].after.gesture = "PINCH_END" <=> Falling(calls[i])
            /\ ~Edge(calls[i]) => calls[i].after.gesture \in {"NONE"} \cup Swipes
            /\ ( /\ ~Edge(calls[i])
                 /\ calls[i].after.velocity.x \in -1..1
                 /\ calls[i].after.velocity.y \in -1..1 )
                  => calls[i].after.gesture = "NONE"

\* C7 witness: the hand was pinching and still is, and the call left NONE.
C7_Witness ==
    \E i \in 1..Len(calls) :
        /\ calls[i].prior.isPinching /\ calls[i].after.isPinching
        /\ calls[i].closedFingers < 3
        /\ calls[i].after.gesture = "NONE"

\* C8: any two swipe classifications of one hand are more than 400 ms apart.
C8_SwipesDebounced ==
    \A label \in {"Left", "Right"} :
        \A i, j \in 1..Len(swipeTimes[label]) :
            i < j => swipeTimes[label][j] - swipeTimes[label][i] > 400

\* C8 witness: a frame on which the hand moves fast enough to swipe, less than
\* 400 ms after its latest swipe, classifies no swipe.
C8_Witness ==
    \E i \in 1..Len(calls) :
        /\ swipeTimes[calls[i].hand] # <<>>
        /\ now - swipeTimes[calls[i].hand][Len(swipeTimes[calls[i].hand])] \in 1..399
        /\ ~calls[i].after.isPinching /\ ~Edge(calls[i])
        /\ calls[i].closedFingers < 3
        /\ calls[i].after.velocity.x \notin -1..1
        /\ calls[i].after.gesture = "NONE"

\* the conditions of a swipe, but for its debounce
SwipeMotion(c) ==
    /\ ~Edge(c)
    /\ c.closedFingers < 3
    /\ ~c.after.isPinching
    /\ (c.after.velocity.x \notin -1..1 \/ c.after.velocity.y \notin -1..1)

\* the direction of a swipe: LEFT or RIGHT if |velocity.x| > |velocity.y|,
\* else UP or DOWN
SwipeDirection(v) ==
    IF v.x * v.x > v.y * v.y
    THEN (IF v.x > 0 THEN "SWIPE_RIGHT" ELSE "SWIPE_LEFT")
    ELSE (IF v.y > 0 THEN "SWIPE_DOWN" ELSE "SWIPE_UP")

\* C9 as claimed: a swipe is classified exactly when no pinch edge or fist
\* was, the hand is not pinching, fewer than three fingertips are closed, at
\* least 400 ms have passed since the hand's last swipe and |velocity.x| * 100
\* or |velocity.y| * 100 exceeds 1.5; its direction is that of the dominant
\* axis.
C9_SwipeIffAtLeast400 ==
    \A i \in 1..Len(calls) :
        /\ calls[i].after.gesture \in Swipes
              <=> (SwipeMotion(calls[i]) /\ now - calls[i].prior.lastGestureTime >= 400)
        /\ calls[i].after.gesture \in Swipes
              => calls[i].after.gesture = SwipeDirection(calls[i].after.velocity)

\* C9 as amended: the same with more than 400 ms since the hand's last swipe;
\* a swipe exactly 400 ms after the last one is not classified.
C9_SwipeIffMoreThan400 ==
    \A i \in 1..Len(calls) :
        /\ calls[i].after.gesture \in Swipes
              <=> (SwipeMotion(calls[i]) /\ now - calls[i].prior.lastGestureTime > 400)
        /\ calls[i].after.gesture \in Swipes
              => calls[i].after.gesture = SwipeDirection(calls[i].after.velocity)
        /\ calls[i].after.lastGestureTime =
              IF calls[i].after.gesture \in Swipes THEN now
              ELSE calls[i].prior.lastGestureTime

\* C9 witness: swipe motion exactly 400 ms after the hand's last swipe, and no
\* swipe classified.
C9_Witness ==
    \E i \in 1..Len(calls) :
        /\ SwipeMotion(calls[i])
        /\ swipeTimes[calls[i].hand] # <<>>
        /\ now - calls[i].prior.lastGestureTime = 400
        /\ calls[i].after.gesture = "NONE"

\* C10: a tick that starts in SPHERE and on which the right hand is detected
\* with gesture PINCH_START or DOUBLE_PINCH ends in DETAIL with selectedIndex
\* the hovered index if that is not -1, and leaves layoutState and
\* selectedIndex unchanged if it is -1.
C10_PinchSelectsHovered ==
    [][ ( /\ photoSystem.state = "SPHERE"
          /\ rightHand'.detected
          /\ rightHand'.gesture \in {"PINCH_START", "DOUBLE_PINCH"} )
        => IF photoSystem'.hoveredIndex # -1
           THEN /\ photoSystem'.state = "DETAIL"
                /\ photoSystem'.selectedIndex = photoSystem'.hoveredIndex
           ELSE /\ photoSystem'.state = "SPHERE"
                /\ photoSystem'.selectedIndex = photoSystem.selectedIndex ]_vars

\* C10 witness: a tick that began in SPHERE and classified the right hand's
\* rising edge as DOUBLE_PINCH has entered DETAIL; the selected item is the
\* hovered one, not item 0.
C10_Witness ==
    /\ layoutBefore = "SPHERE"
    /\ photoSystem.state = "DETAIL"
    /\ photoSystem.selectedIndex = photoSystem.hoveredIndex
    /\ photoSystem.selectedIndex > 0
    /\ rightHand.detected
    /\ \E i \in CallsOf("Right") :
          Rising(calls[i]) /\ calls[i].after.gesture = "DOUBLE_PINCH"

\* C11: a tick that begins in DETAIL and on which the detected right hand's
\* gesture is FIST ends in SPHERE with sphereScale 1.0 and selectedIndex -1.
C11_FistLeavesDetail ==
    ( /\ layoutBefore = "DETAIL"
      /\ rightHand.detected
      /\ rightHand.gesture = "FIST" )
    => ( /\ photoSystem.state = "SPHERE"
         /\ photoSystem.sphereScale = 10000
         /\ photoSystem.selectedIndex = -1 )

\* C11 witness: a frame that began in DETAIL has classified the right hand as
\* FIST, with both hands detected, and the layout is SPHERE at scale 1.0.
C11_Witness ==
    /\ layoutBefore = "DETAIL"
    /\ photoSystem.state = "SPHERE"
    /\ photoSystem.sphereScale = 10000
    /\ handsDetectedBoth
    /\ \E i \in CallsOf("Right") : calls[i].after.gesture = "FIST"

\* C12: called in DETAIL with selectedIndex i, nextPhoto leaves selectedIndex
\* (i + 1) mod count and prevPhoto leaves (i - 1) mod count, both a valid index
\* in DETAIL; and in every DETAIL state nextPhoto followed by prevPhoto
\* restores selectedIndex.
C12_IndexWraps ==
    /\ [][ ( /\ photoSystem.state = "DETAIL"
              /\ lastCall'.n # lastCall.n
              /\ lastCall'.op \in {"nextPhoto", "prevPhoto"} )
            => /\ photoSystem'.state = "DETAIL"
               /\ photoSystem'.selectedIndex \in 0 .. (Count - 1)
               /\ photoSystem'.selectedIndex =
                     IF lastCall'.op = "nextPhoto"
                     THEN (photoSystem.selectedIndex + 1) % Count
                     ELSE (photoSystem.selectedIndex + Count - 1) % Count ]_vars
    /\ [](photoSystem.state = "DETAIL" =>
             /\ prevPhoto(nextPhoto(photoSystem)).selectedIndex = photoSystem.selectedIndex
             /\ nextPhoto(prevPhoto(photoSystem)).selectedIndex = photoSystem.selectedIndex)

\* C12 witness: nextPhoto was called in DETAIL after at least two other calls
\* and has wrapped to item 0.
C12_Witness ==
    /\ lastCall.op = "nextPhoto"
    /\ lastCall.n >= 3
    /\ layoutBefore = "DETAIL"
    /\ photoSystem.state = "DETAIL"
    /\ photoSystem.selectedIndex = 0

\* C13: a call of setDetailLayout with an index below 0 or at least count
\* leaves the PhotoSystem as it is, in every layout state: layoutState,
\* selectedIndex, the target transforms and everything else.
C13_OutOfRangeIgnored ==
    [][ ( /\ lastCall'.n # lastCall.n
          /\ lastCall'.op = "setDetailLayout"
          /\ (lastCall'.arg < 0 \/ lastCall'.arg >= Count) )
        => photoSystem' = photoSystem ]_vars

\* C13 witness: setDetailLayout(count) was called in DETAIL, where another
\* item is selected and the targets are those of that selection.
C13_Witness ==
    /\ lastCall.op = "setDetailLayout"
    /\ lastCall.arg = Count
    /\ layoutBefore = "DETAIL"
    /\ photoSystem.state = "DETAIL"
    /\ photoSystem.selectedIndex = 0
    /\ photoSystem.targetTransforms[Count - 1] = BackgroundTarget(Count - 1)

\* C14: in every reachable state selectedIndex is a valid item index if the
\* layout is DETAIL, and -1 if it is not.
C14_SelectedIffDetail ==
    IF photoSystem.state = "DETAIL"
    THEN photoSystem.selectedIndex \in 0 .. (Count - 1)
    ELSE photoSystem.selectedIndex = -1

\* C14 witness: a tick that began in DETAIL, where the last item was selected,
\* has gone back to SPHERE and no item is selected.
C14_Witness ==
    /\ layoutBefore = "DETAIL"
    /\ photoSystem.state = "SPHERE"
    /\ photoSystem.selectedIndex = -1
    /\ photoSystem.hoveredIndex = Count - 1

\* C15: in every reachable state whose layout is not SPHERE, hoveredIndex
\* is -1.
C15_HoverOnlyInSphere ==
    photoSystem.state # "SPHERE" => photoSystem.hoveredIndex = -1

BothDetected == leftHand.detected /\ rightHand.detected

\* C16: a processed frame on which a hand is not detected leaves handsDistance
\* as it was and handsDetectedBoth false; handsDistance changes only on
\* processed frames on which both hands are detected.
C16_FrozenWithoutBothHands ==
    [][ /\ (frameProcessed' /\ ~BothDetected') =>
               (handsDistance' = handsDistance /\ ~handsDetectedBoth')
        /\ handsDistance' # handsDistance => (frameProcessed' /\ BothDetected') ]_vars

\* C16 witness: a frame lost a hand while handsDistance was above zero, which
\* it still is.
C16_Witness ==
    /\ frameProcessed
    /\ ~BothDetected
    /\ ~handsDetectedBoth
    /\ handsDistance > 0

C18_EqualPositionsGiveZero ==
    ( /\ frameProcessed
      /\ BothDetected
      /\ leftHand.position = rightHand.position )
    => handsDistance = 0

\* C18 as amended: after such a frame handsDistance is
\* clamp((0.7 * h - 0.15) / 0.65, 0, 1) for its previous value h, which is 0
\* if h is at most 0.21 and above 0 if h is at least 0.23.
C18_EqualPositionsDecay ==
    [][ ( /\ frameProcessed'
          /\ BothDetected'
          /\ leftHand'.position = rightHand'.position )
        => /\ handsDistance' =
                 Max2(0, Min2(100, TruncDiv((TruncDiv(handsDistance * 70, 100) - 15) * 100, 65)))
           /\ handsDistance <= 21 => handsDistance' = 0
           /\ handsDistance >= 23 => handsDistance' > 0 ]_vars

\* C18 witness: both hands are detected at equal positions and handsDistance
\* is still above zero.
C18_Witness ==
    /\ frameProcessed
    /\ BothDetected
    /\ leftHand.position = rightHand.position
    /\ handsDistance > 0

\* C19: in every reachable state both hands' pinchDistance, handsDistance and
\* every item's hoverIntensity lie in [0, 1].
C19_UnitRanges ==
    /\ leftHand.pinchDistance \in 0 .. 100
    /\ rightHand.pinchDistance \in 0 .. 100
    /\ handsDistance \in 0 .. 100
    /\ \A i \in 0 .. (Count - 1) : photoSystem.hoverIntensities[i] \in 0 .. 10000

\* C19 witness: the right hand's pinchDistance is clamped to 1 (its raw
\* distance 0.30 remaps to 1.23), handsDistance is strictly between 0 and 1,
\* one item's hoverIntensity is rising and another's is falling.
C19_Witness ==
    /\ rightHand.detected /\ rightHand.pinchDistance = 100
    /\ handsDistance \in 1 .. 99
    /\ \E i, j \in 0 .. (Count - 1) :
          /\ i # j
          /\ i = photoSystem.hoveredIndex
          /\ photoSystem.hoverIntensities[i] \in 1 .. 9999
          /\ photoSystem.hoverIntensities[j] \in 1 .. photoSystem.hoverIntensities[i] - 1

\* C20: in every DETAIL state every item other than the selected one has
\* target scale 0 and target position its sphere direction times
\* 2 * BASE_RADIUS = 30, not rotated, and the selected item's target scale is
\* not 0: it is the only item with a non-zero target scale.
C20_OthersCollapsed ==
    photoSystem.state = "DETAIL" =>
        \A i \in 0 .. (Count - 1) :
            IF i = photoSystem.selectedIndex
            THEN photoSystem.targetTransforms[i].scale # [x |-> 0, y |-> 0, z |-> 0]
            ELSE /\ photoSystem.targetTransforms[i].scale = [x |-> 0, y |-> 0, z |-> 0]
                 /\ photoSystem.targetTransforms[i].position =
                       [dir |-> i, radius |-> 3000, rot |-> [x |-> 0, y |-> 0],
                        z |-> 0, bob |-> FALSE]

\* C20 witness: the sphere was zoomed to scale 2.55 and its targets updated
\* and rotated, an item was selected, and nextPhoto has moved on to another.
C20_Witness ==
    /\ lastCall.op = "nextPhoto"
    /\ layoutBefore = "DETAIL"
    /\ photoSystem.state = "DETAIL"
    /\ photoSystem.sphereScale = 25500
    /\ photoSystem.sphereRotation.y > 0

\* C21: in every DETAIL state the selected item's target scale is
\* (36 * ar, 36, 1) for that item's current aspect ratio ar, also when the
\* texture callback sets the aspect ratio after the item was selected.
C21_DetailScaleFollowsAspect ==
    photoSystem.state = "DETAIL" =>
        photoSystem.targetTransforms[photoSystem.selectedIndex].scale =
            [ x |-> 36 * photoSystem.aspectRatios[photoSystem.selectedIndex],
              y |-> 3600,
              z |-> 100 ]

\* the gap below which a step of the interpolation is less than one
\* ten-thousandth, the last digit of the current transforms
LerpResolution == 100 \div LerpFactor

\* the gap of one scale component to its target (hundredths), in ten-thousandths
ScaleGap(current, target) == current - target * 100

\* the gap after one tick is 0.95 times the gap before it, up to the last digit
Shrinks(before, after) == Abs(20 * after - 19 * before) < 20

\* the items other than the selected one are within the resolution of scale 0
\* and of their place behind the photo, and the selected one of its scale
DetailSettled ==
    /\ photoSystem.state = "DETAIL"
    /\ \A i \in 0 .. (Count - 1) :
          LET t == photoSystem.targetTransforms[i]
              c == currentTransforms[i]
          IN  /\ Abs(ScaleGap(c.scale.x, t.scale.x)) < LerpResolution
              /\ Abs(ScaleGap(c.scale.y, t.scale.y)) < LerpResolution
              /\ Abs(ScaleGap(c.scale.z, t.scale.z)) < LerpResolution
              /\ i # photoSystem.selectedIndex =>
                    /\ t.scale = Vec(0, 0, 0)
                    /\ c.position.toward = t.position
                    /\ c.position.gap < LerpResolution

\* C22: on every tick the gap of each scale component to its target becomes
\* 0.95 times what it was, and so does the gap of the position to a target
\* that is the one of the tick before; and in DETAIL, with update() called
\* again and again and no further layout change, every item other than the
\* selected one comes within the resolution of scale 0 and of its target
\* position.
C22_GapShrinks ==
    /\ [][ lastCall'.op = "update" =>
             \A i \in 0 .. (Count - 1) :
                LET t == photoSystem'.targetTransforms[i]
                    c == currentTransforms[i]
                    d == currentTransforms'[i]
                IN  /\ Shrinks(ScaleGap(c.scale.x, t.scale.x), ScaleGap(d.scale.x, t.scale.x))
                    /\ Shrinks(ScaleGap(c.scale.y, t.scale.y), ScaleGap(d.scale.y, t.scale.y))
                    /\ Shrinks(ScaleGap(c.scale.z, t.scale.z), ScaleGap(d.scale.z, t.scale.z))
                    /\ d.position.toward = t.position
                    /\ (c.position.toward = t.position /\ ~t.position.bob)
                          => Shrinks(c.position.gap, d.position.gap) ]_vars
    /\ (photoSystem.state = "DETAIL") ~> DetailSettled

\* C22 witness: in DETAIL, entered while the items were still moving to their
\* places on the sphere, update() has brought every item to rest; the other
\* items' scale is below the resolution and the selected one's is at 36.
C22_Witness ==
    /\ DetailSettled
    /\ AtRest
    /\ lastCall.op = "update"
    /\ photoSystem.sphereRotation.y > 0
    /\ currentTransforms[photoSystem.selectedIndex].scale.y > 359900
    /\ \E i \in 0 .. (Count - 1) :
          /\ i # photoSystem.selectedIndex
          /\ currentTransforms[i].scale.y \in 1 .. 19

\* C23: while no hand is ever seen, both hands' gesture is NONE, no hand is
\* detected, handsDetectedBoth is false, handsDistance is 0 and the layout
\* stays CRYSTAL_BALL with selectedIndex -1, sphereScale 0.2 and explode()
\* never called.
C23_IdleWithoutHands ==
    /\ leftHand.gesture = "NONE" /\ rightHand.gesture = "NONE"
    /\ ~leftHand.detected /\ ~rightHand.detected
    /\ ~handsDetectedBoth
    /\ handsDistance = 0
    /\ photoSystem.state = "CRYSTAL_BALL"
    /\ photoSystem.selectedIndex = -1
    /\ photoSystem.sphereScale = 2000
    /\ photoSystem.explodeCount = 0

\* C23 witness: a frame without hands has been processed after the crystal
\* ball has spun on at least ten ticks, more than a second after the start.
C23_Witness ==
    /\ frameProcessed
    /\ calls = <<>>
    /\ now >= StartTime + 1000
    /\ photoSystem.sphereRotation.y >= 10 * CrystalSpin
    /\ photoSystem.state = "CRYSTAL_BALL"

VisionSettled == startup.vision \in {"resolved", "rejected"}

\* C24: the frame loop is eventually started, whether initialize() resolves,
\* rejects or never settles, and it is started only after initialize() has
\* resolved or rejected or the 8 s timer has fired; the timer fires no
\* earlier than 8000 ms.
C24_LoopStartsAfterRace ==
    /\ <>startup.loopStarted
    /\ [](startup.loopStarted => (VisionSettled \/ startup.timer = "fired"))
    /\ [](startup.timer = "fired" => now >= 8000)
    /\ [][ (~startup.loopStarted /\ startup'.loopStarted)
             => (VisionSettled \/ startup.timer = "fired") ]_vars

\* C24 witness: the frame loop runs although initialize() has not settled:
\* the timer has fired.
C24_Witness ==
    /\ startup.loopStarted
    /\ ~VisionSettled
    /\ startup.timer = "fired"
    /\ startup.race = "rejected"
    /\ photoSystem.sphereRotation.y > 0

C26_RightHandRotates ==
    [][ ( photoSystem.state = "SPHERE" /\ rightHand'.detected ) =>
          IF ~rightHand'.isPinching
          THEN photoSystem'.sphereRotation =
                 [ x |-> photoSystem.sphereRotation.x + rightHand'.rotationSpeed.y * 5,
                   y |-> photoSystem.sphereRotation.y + rightHand'.rotationSpeed.x * 5 ]
          ELSE photoSystem'.sphereRotation = photoSystem.sphereRotation ]_vars

\* C27: a tick that begins in SPHERE and on which the right hand is not
\* detected leaves the yaw unchanged if the left hand is detected and
\* pinching, and advances it by the auto-yaw 0.002 otherwise.
C27_AutoYawUnlessLeftPinch ==
    [][ ( photoSystem.state = "SPHERE" /\ ~rightHand'.detected ) =>
          photoSystem'.sphereRotation.y =
              IF leftHand'.detected /\ leftHand'.isPinching
              THEN photoSystem.sphereRotation.y
              ELSE photoSystem.sphereRotation.y + 20 ]_vars

\* C28: in every state whose layout is CRYSTAL_BALL sphereScale is 0.2,
\* whatever the hands do and whatever factor setExpansion is called with; a
\* step that begins and ends in CRYSTAL_BALL leaves sphereScale unchanged.
C28_CrystalBallScaleFixed ==
    /\ [](photoSystem.state = "CRYSTAL_BALL" => photoSystem.sphereScale = 2000)
    /\ [][ ( photoSystem.state = "CRYSTAL_BALL" /\ photoSystem'.state = "CRYSTAL_BALL" )
            => photoSystem'.sphereScale = photoSystem.sphereScale ]_vars

\* C28 witness: in CRYSTAL_BALL both hands have been detected apart (the zoom
\* factor is positive) and setExpansion has been called with factor 1.
C28_Witness ==
    /\ photoSystem.state = "CRYSTAL_BALL"
    /\ handsDetectedBoth
    /\ handsDistance > 0
    /\ lastCall.op = "setExpansion"
    /\ lastCall.arg = 100
    /\ layoutBefore = "CRYSTAL_BALL"

\* the raw thumb-to-index distance the last processed frame measured
LastRawDist == calls[Len(calls)].rawDist

\* C29: after a frame with the right hand at raw thumb-to-index distance d,
\* pinchDistance is (d - 0.03) / 0.22 clamped to [0, 1]: 0 for d <= 0.03,
\* 1 for d >= 0.25, 0.5 at d = 0.14, within one hundredth of the quotient in
\* between; and of two successive frames the one with the larger d has the
\* larger or equal pinchDistance.
C29_PinchRemap ==
    /\ []( (frameProcessed /\ rightHand.detected) =>
             /\ (LastRawDist <= 3 => rightHand.pinchDistance = 0)
             /\ (LastRawDist >= 25 => rightHand.pinchDistance = 100)
             /\ (LastRawDist = 14 => rightHand.pinchDistance = 50)
             /\ (LastRawDist \in 3 .. 25 =>
                    Abs(22 * rightHand.pinchDistance - 100 * (LastRawDist - 3)) < 22) )
    /\ [][ ( frameProcessed /\ rightHand.detected
             /\ frameProcessed' /\ rightHand'.detected ) =>
           ( LastRawDist <= LastRawDist' =>
               rightHand.pinchDistance <= rightHand'.pinchDistance ) ]_vars

\* C29 witness: a frame at d = 0.14 gave pinchDistance 0.5 and ended a pinch:
\* the frame before it had a smaller d and a pinchDistance below 0.1.
C29_Witness ==
    /\ frameProcessed /\ rightHand.detected
    /\ LastRawDist = 14
    /\ rightHand.pinchDistance = 50
    /\ now = PinchMaxTime
    /\ rightHand.gesture = "PINCH_END"

\* the step is a processed frame that classified a swipe of the right hand
RightSwipeClassified ==
    Len(swipeTimes'["Right"]) > Len(swipeTimes["Right"])

\* C30: a tick that begins and ends in DETAIL moves selectedIndex one step
\* forward if it classified a SWIPE_LEFT of the right hand, one step back if
\* it classified a SWIPE_RIGHT, and leaves it where it is if it classified no
\* swipe: one nextPhoto or prevPhoto call per classification.
C30_OneStepPerSwipe ==
    [][ ( photoSystem.state = "DETAIL" /\ photoSystem'.state = "DETAIL" ) =>
          photoSystem'.selectedIndex =
              IF RightSwipeClassified /\ rightHand'.gesture = "SWIPE_LEFT"
              THEN (photoSystem.selectedIndex + 1) % Count
              ELSE IF RightSwipeClassified /\ rightHand'.gesture = "SWIPE_RIGHT"
              THEN (photoSystem.selectedIndex + Count - 1) % Count
              ELSE photoSystem.selectedIndex ]_vars

\* the layout transitions of the state diagram
LayoutTransitions ==
    { <<"CRYSTAL_BALL", "SPHERE">>, <<"SPHERE", "DETAIL">>, <<"DETAIL", "SPHERE">> }

\* C31: a tick of the frame loop either keeps the layout state (in DETAIL
\* possibly with another index) or takes CRYSTAL_BALL to SPHERE, SPHERE to
\* DETAIL or DETAIL to SPHERE; once explode() has run, that is once
\* CRYSTAL_BALL has been left, the layout is never CRYSTAL_BALL again.
C31_LayoutTransitions ==
    /\ [][ \/ photoSystem'.state = photoSystem.state
           \/ <<photoSystem.state, photoSystem'.state>> \in LayoutTransitions ]_vars
    /\ [](photoSystem.explodeCount > 0 => photoSystem.state # "CRYSTAL_BALL")
    /\ [](photoSystem.explodeCount = 0 => photoSystem.state = "CRYSTAL_BALL")

\* C31 witness: the layout has gone from CRYSTAL_BALL to SPHERE, on to DETAIL
\* and back to SPHERE by a FIST.
C31_Witness ==
    /\ photoSystem.state = "SPHERE"
    /\ layoutBefore = "DETAIL"
    /\ photoSystem.explodeCount = 1
    /\ rightHand.gesture = "FIST"
    /\ now = MaxTime

\* C32: a tick changes the layout state at most once.  A tick that begins in
\* CRYSTAL_BALL ends in CRYSTAL_BALL or in SPHERE with nothing selected,
\* whatever the cursor points at; a tick that begins in DETAIL with a FIST of
\* the detected right hand ends in SPHERE with nothing selected.
C32_OneLayoutChangePerTick ==
    [][ /\ photoSystem.state = "CRYSTAL_BALL" =>
              \/ photoSystem'.state = "CRYSTAL_BALL"
              \/ ( photoSystem'.state = "SPHERE" /\ photoSystem'.selectedIndex = -1 )
        /\ ( photoSystem.state = "DETAIL" /\ rightHand'.detected
             /\ rightHand'.gesture = "FIST" ) =>
              ( photoSystem'.state = "SPHERE" /\ photoSystem'.selectedIndex = -1 ) ]_vars

\* C32 witness: a DETAIL layout was left by a FIST on a processed frame,
\* after the crystal ball had been left by a pinch of the right hand.
C32_Witness ==
    /\ layoutBefore = "DETAIL"
    /\ photoSystem.state = "SPHERE"
    /\ frameProcessed
    /\ rightHand.gesture = "FIST"
    /\ rightHand.lastPinchTime > 0
    /\ leftHand.lastPinchTime = 0

\* the step is a processed frame that left a pinch gesture in the hand slot
PinchObserved(after) ==
    /\ frameProcessed' /\ after.detected
    /\ after.gesture \in PinchEdges

\* the observed pinch gesture continues the alternation of the slot, seen
\* being the pinch gesture observed last
Alternates(after, seen) ==
    PinchObserved(after) =>
        IF after.gesture = "PINCH_END" THEN seen \in PinchStarts
        ELSE seen \in {"NONE", "PINCH_END"}

\* C33 as claimed: per hand slot the observed pinch gestures alternate: a
\* PINCH_END follows a PINCH_START or DOUBLE_PINCH, a PINCH_START or
\* DOUBLE_PINCH follows a PINCH_END or is the first pinch gesture of the slot.
C33_PinchesAlternate ==
    [][ /\ Alternates(leftHand', pinchSeen["Left"])
        /\ Alternates(rightHand', pinchSeen["Right"]) ]_vars

\* the pinch gesture of a step is the edge of isPinching, and only frames
\* that update the slot change isPinching
EdgeOfPinching(before, after) ==
    IF frameProcessed' /\ after.detected
    THEN /\ after.gesture \in PinchStarts => (~before.isPinching /\ after.isPinching)
         /\ after.gesture = "PINCH_END" => (before.isPinching /\ ~after.isPinching)
         /\ before.isPinching # after.isPinching =>
                after.gesture \in PinchEdges \cup {"FIST"}
    ELSE after.isPinching = before.isPinching

\* C33 amended: per hand slot, PINCH_START or DOUBLE_PINCH is observed only
\* on a frame where isPinching rises and PINCH_END only on a frame where it
\* falls; isPinching changes only on such a frame or on a frame shown as
\* FIST, and keeps its value while the hand is lost.
C33_EdgesFollowPinching ==
    [][ /\ EdgeOfPinching(leftHand, leftHand')
        /\ EdgeOfPinching(rightHand, rightHand') ]_vars

\* C33 witness: the right hand was pinching when it was lost, and the frame
\* that finds it again, open, gives PINCH_END after the PINCH_START seen
\* before the loss; the left hand was lost while pinching.
C33_Witness ==
    /\ frameProcessed /\ rightHand.detected
    /\ rightHand.gesture = "PINCH_END"
    /\ pinchSeen["Right"] = "PINCH_END"
    /\ now - rightHand.lastPinchTime >= 300
    /\ leftHand.isPinching /\ ~leftHand.detected

\* C34: the frame that detects the right hand again after frames without it
\* classifies no SWIPE_*, wherever the hand reappears.
C34_NoSwipeOnReacquisition ==
    [][ ( ~rightHand.detected /\ rightHand.lastPosition # {}
          /\ frameProcessed' /\ rightHand'.detected ) =>
            rightHand'.gesture \notin Swipes ]_vars

\* C35: once the timeout has won the race (the timer has fired and the race
\* is rejected), no tick processes a video frame and both hands stay
\* undetected, also when initialize() completes later.
C35_DemoModeIsPermanent ==
    ( startup.timer = "fired" /\ startup.race = "rejected" ) =>
        ( ~frameProcessed /\ ~leftHand.detected /\ ~rightHand.detected )

\* C36: the updateHandData calls of one tick hold at most one call per hand
\* slot, whatever handedness labels the detector reports.
C36_OneUpdatePerSlot ==
    \A label \in {"Left", "Right"} :
        Cardinality({ j \in 1..Len(calls) : calls[j].hand = label }) <= 1

\* currentDistance of calculateHandsDistance for the hands as they are
HandsRawDistance ==
    LET dx == leftHand.position.x - rightHand.position.x
        dy == leftHand.position.y - rightHand.position.y
        dz == leftHand.position.z - rightHand.position.z
    IN  ISqrt(dx*dx + dy*dy + dz*dz)

\* the raw distance d remapped from [0.15, 0.8] to [0, 1] and clamped
RemappedDistance(d) ==
    Max2(0, Min2(100, TruncDiv((d - MinDistance) * 100, MaxDistance - MinDistance)))

\* C37: with both hands held at a constant raw distance d, the value at
\* which handsDistance comes to rest is clamp((d - 0.15) / 0.65, 0, 1): a
\* frame that finds both hands where the frame before found them and leaves
\* handsDistance as it was, leaves it at that value.
C37_ZoomFollowsDistance ==
    [][ ( handsDetectedBoth /\ frameProcessed /\ frameProcessed'
          /\ leftHand'.position = leftHand.position
          /\ rightHand'.position = rightHand.position
          /\ handsDistance' = handsDistance ) =>
            handsDistance' = RemappedDistance(HandsRawDistance) ]_vars

\* layout state and selection after the interaction logic of a tick that
\* sees no left hand, the right hand as it is after the step and the raycast
\* result the step stored
WithoutLeftHand ==
    InteractionLogic(photoSystem, createEmptyHandData, rightHand', FALSE, 0,
                     photoSystem'.hoveredIndex)

\* C38: a tick that begins in SPHERE or DETAIL ends with the layout state and
\* selectedIndex it would end with if there were no left hand, and changes
\* neither of them unless the right hand is detected.
C38_LeftHandChangesNoLayout ==
    [][ photoSystem.state \in {"SPHERE", "DETAIL"} =>
          /\ photoSystem'.state = WithoutLeftHand.state
          /\ photoSystem'.selectedIndex = WithoutLeftHand.selectedIndex
          /\ ~rightHand'.detected =>
                /\ photoSystem'.state = photoSystem.state
                /\ photoSystem'.selectedIndex = photoSystem.selectedIndex ]_vars

\* C38 witness: in SPHERE a processed frame found the left hand starting a
\* pinch while the right hand, open, pointed at an item: the layout is still
\* SPHERE with nothing selected.
C38_Witness ==
    /\ layoutBefore = "SPHERE" /\ photoSystem.state = "SPHERE"
    /\ frameProcessed
    /\ leftHand.detected /\ leftHand.gesture = "PINCH_START"
    /\ rightHand.detected /\ rightHand.gesture = "NONE"
    /\ photoSystem.hoveredIndex # -1
    /\ photoSystem.selectedIndex = -1

\* the step is a call of nextPhoto or prevPhoto
PhotoStepCalled ==
    lastCall'.n = lastCall.n + 1 /\ lastCall'.op \in {"nextPhoto", "prevPhoto"}

\* C39: a step that begins and ends in DETAIL leaves sphereRotation,
\* sphereScale, hoveredIndex and every hoverIntensity unchanged, whatever the
\* hands and the cursor ray do; a call of nextPhoto or prevPhoto in a layout
\* other than DETAIL changes nothing of the PhotoSystem.
C39_DetailFreezesSphere ==
    [][ /\ ( photoSystem.state = "DETAIL" /\ photoSystem'.state = "DETAIL" ) =>
              /\ photoSystem'.sphereRotation = photoSystem.sphereRotation
              /\ photoSystem'.sphereScale = photoSystem.sphereScale
              /\ photoSystem'.hoveredIndex = photoSystem.hoveredIndex
              /\ photoSystem'.hoverIntensities = photoSystem.hoverIntensities
        /\ ( PhotoStepCalled /\ photoSystem.state # "DETAIL" ) =>
              photoSystem' = photoSystem ]_vars

\* C39 witness: a frame processed in DETAIL found both hands apart and the
\* right hand open and off centre; the sphere had been zoomed and an item's
\* hover intensity had risen before the item was opened, and nextPhoto or
\* prevPhoto had been called.
C39_Witness ==
    /\ layoutBefore = "DETAIL" /\ photoSystem.state = "DETAIL"
    /\ frameProcessed
    /\ handsDetectedBoth /\ handsDistance > 0
    /\ ~rightHand.isPinching /\ rightHand.rotationSpeed.x # 0
    /\ photoSystem.sphereScale # 10000
    /\ photoSystem.hoverIntensities[0] > 0
    /\ lastCall.n > 0

====
